---- MODULE Spec2Model ----
(***************************************************************************)
(* ScreenCaptureService (src/screen_capture.py): the configuration, the    *)
(* capture session life cycle and the capture loop thread, as a state      *)
(* machine.  No lock protects the service's fields, so the handlers that   *)
(* write several fields are modelled one shared access per step.           *)
(*                                                                         *)
(* Floats (interval, resize_factor) are fixed-point tenths: 1.0 is 10.     *)
(* Timestamps (datetime.now()) are readings of a strictly increasing       *)
(* clock.                                                                  *)
(***************************************************************************)
EXTENDS Integers, Sequences, FiniteSets, TLC

\* Bounds of the model
MaxTicks == 2
MaxLoops == 2
MaxCalls == 3
MaxSenders == 1

\* float('nan'): every ordering comparison with it is false
NaN == 0 - 1000000

None == "None"

---------------------------------------------------------------------------
(* Python values that reach the service from a JSON body or a caller.      *)
PyIntV(n) == [t |-> "int", v |-> n]
PyFloatV(tenths) == [t |-> "float", v |-> tenths]
PyBoolV(b) == [t |-> "bool", v |-> IF b THEN 1 ELSE 0]
PyNaN == [t |-> "float", v |-> NaN]
PyText == [t |-> "text", v |-> 0]
PyNone == [t |-> "none", v |-> 0]

\* float(x): [ok, v] with v in tenths; a str that is no number raises
\* ValueError, None raises TypeError
float(x) ==
    CASE x.t = "int" -> [ok |-> TRUE, v |-> x.v * 10, exc |-> None]
      [] x.t = "bool" -> [ok |-> TRUE, v |-> x.v * 10, exc |-> None]
      [] x.t = "float" -> [ok |-> TRUE, v |-> x.v, exc |-> None]
      [] x.t = "text" -> [ok |-> FALSE, v |-> 0, exc |-> "ValueError"]
      [] OTHER -> [ok |-> FALSE, v |-> 0, exc |-> "TypeError"]

\* int(x): truncation toward zero for a float, ValueError for NaN
int(x) ==
    CASE x.t = "int" -> [ok |-> TRUE, v |-> x.v, exc |-> None]
      [] x.t = "bool" -> [ok |-> TRUE, v |-> x.v, exc |-> None]
      [] x.t = "float" ->
            IF x.v = NaN THEN [ok |-> FALSE, v |-> 0, exc |-> "ValueError"]
            ELSE [ok |-> TRUE,
                  v |-> IF x.v >= 0 THEN x.v \div 10 ELSE 0 - ((0 - x.v) \div 10),
                  exc |-> None]
      [] x.t = "text" -> [ok |-> FALSE, v |-> 0, exc |-> "ValueError"]
      [] OTHER -> [ok |-> FALSE, v |-> 0, exc |-> "TypeError"]

\* bool(x): truthiness
bool(x) ==
    CASE x.t = "none" -> FALSE
      [] x.t = "text" -> TRUE
      [] OTHER -> x.v # 0

\* float comparisons, false whenever an operand is NaN
FloatLE(a, b) == a # NaN /\ b # NaN /\ a <= b
FloatLT(a, b) == a # NaN /\ b # NaN /\ a < b

---------------------------------------------------------------------------
(* update_config: the fields in the order the code visits them.            *)
ConfigFields == <<"interval", "quality", "resize_factor", "add_timestamp", "monitor">>

\* the error message recorded for a field that does not convert or is out
\* of range
FieldError(f) == "Invalid configuration: " \o f

\* a monitor block that checks the index and does not store it
ApplyFieldMonitorDropped(cfg, f, x) ==
    CASE f = "interval" ->
            LET c == float(x) IN
            IF ~c.ok \/ FloatLE(c.v, 0) THEN [cfg |-> cfg, ok |-> FALSE]
            ELSE [cfg |-> [cfg EXCEPT !.interval = c.v], ok |-> TRUE]
      [] f = "quality" ->
            LET c == int(x) IN
            IF ~c.ok \/ ~(1 <= c.v /\ c.v <= 100) THEN [cfg |-> cfg, ok |-> FALSE]
            ELSE [cfg |-> [cfg EXCEPT !.quality = c.v], ok |-> TRUE]
      [] f = "resize_factor" ->
            LET c == float(x) IN
            IF ~c.ok \/ FloatLE(c.v, 0) THEN [cfg |-> cfg, ok |-> FALSE]
            ELSE [cfg |-> [cfg EXCEPT !.resize_factor = c.v], ok |-> TRUE]
      [] f = "add_timestamp" ->
            [cfg |-> [cfg EXCEPT !.add_timestamp = bool(x)], ok |-> TRUE]
      [] OTHER ->
            LET c == int(x) IN
            IF ~c.ok \/ c.v < 0 THEN [cfg |-> cfg, ok |-> FALSE]
            ELSE [cfg |-> cfg, ok |-> TRUE]

\* one `if '<field>' in new_config:` block: the configuration after it and
\* whether it raised
ApplyField(cfg, f, x) ==
    CASE f = "interval" ->
            LET c == float(x) IN
            IF ~c.ok \/ FloatLE(c.v, 0) THEN [cfg |-> cfg, ok |-> FALSE]
            ELSE [cfg |-> [cfg EXCEPT !.interval = c.v], ok |-> TRUE]
      [] f = "quality" ->
            LET c == int(x) IN
            IF ~c.ok \/ ~(1 <= c.v /\ c.v <= 100) THEN [cfg |-> cfg, ok |-> FALSE]
            ELSE [cfg |-> [cfg EXCEPT !.quality = c.v], ok |-> TRUE]
      [] f = "resize_factor" ->
            LET c == float(x) IN
            IF ~c.ok \/ FloatLE(c.v, 0) THEN [cfg |-> cfg, ok |-> FALSE]
            ELSE [cfg |-> [cfg EXCEPT !.resize_factor = c.v], ok |-> TRUE]
      [] f = "add_timestamp" ->
            [cfg |-> [cfg EXCEPT !.add_timestamp = bool(x)], ok |-> TRUE]
      [] OTHER ->
            LET c == int(x) IN
            IF ~c.ok \/ c.v < 0 THEN [cfg |-> cfg, ok |-> FALSE]
            ELSE [cfg |-> [cfg EXCEPT !.monitor = c.v], ok |-> TRUE]

\* the body of update_config's try block from field number i on: each
\* supplied field is converted, checked and stored before the next one is
\* looked at; the first failure leaves the block
RECURSIVE ApplyFields(_, _, _)
ApplyFields(cfg, new_config, i) ==
    IF i > Len(ConfigFields) THEN [cfg |-> cfg, ok |-> TRUE, err |-> None]
    ELSE LET f == ConfigFields[i] IN
         IF f \notin DOMAIN new_config THEN ApplyFields(cfg, new_config, i + 1)
         ELSE LET r == ApplyField(cfg, f, new_config[f]) IN
              IF r.ok THEN ApplyFields(r.cfg, new_config, i + 1)
              ELSE [cfg |-> r.cfg, ok |-> FALSE, err |-> FieldError(f)]

---------------------------------------------------------------------------
VARIABLES
    CAPTURE_LIBRARY,    \* module constant chosen at import: "mss" (or "pyautogui", used alike), or None
    capturing,          \* _capturing
    capture_thread,     \* _capture_thread: the thread launched last, 0 for None
    latest_image,       \* _latest_image
    last_capture_time,  \* _last_capture_time
    last_error,         \* _last_error
    stats,              \* _stats
    config,             \* _config
    loops,              \* the threads running _capture_loop
    pc,                 \* where the API caller is inside start_capture / stop_capture
    call,               \* the API call in progress or returned last: its name, its
                        \* arguments while it runs, the value returned ("pending" before
                        \* that) and the line of the return statement taken
    stats_view,         \* what a get_stats of a status query has just returned
    clock,              \* readings of datetime.now() taken so far
    calls,              \* API calls made so far
    ticks,              \* ticks the capture loops have begun so far
    data,               \* the JSON body a behaviour of the configuration surface
                        \* calls update_config with
    senders,            \* the threads running send_async, one per dispatched delivery
    feeder,             \* the caller inside feed_external_image
    test,               \* the request thread inside test_webhook
    numbering,          \* history: whether the behaviour keeps the order in which
                        \* its frames were acquired (their number n)
    snapshot,           \* the dict a client got from get_config and still holds
    adders,             \* the request threads inside add_webhook_url
    stamps,             \* history: the frames stamped so far, each with the
                        \* capture time written for it
    reader,             \* the request thread of GET /api/image/latest
    updater,            \* a request thread inside update_config, field by field
    faults,             \* the steps of _process_image that raise in this behaviour
    frame               \* the frame handed to _optimize_image_for_webhook and what
                        \* the call made of it

vars == <<CAPTURE_LIBRARY, capturing, capture_thread, latest_image, last_capture_time,
          last_error, stats, config, loops, pc, call, stats_view, clock, calls, ticks, data,
          senders, feeder, test, numbering, snapshot, adders, stamps, reader, updater,
          faults, frame>>

\* the request threads of the concurrent readers and writers, and what they
\* are measured against
hvars == <<stamps, reader, updater, faults, frame>>

\* what the clients of the service hold, and the history kept of a behaviour
xvars == <<numbering, snapshot, adders, hvars>>

\* the state of the delivery side
dvars == <<senders, feeder, test, xvars>>

Threads == 1 .. MaxLoops

\* a thread object: pc is the statement it is about to run ("new": not
\* created yet, "dead": run() has returned or raised), img the frame of the
\* tick in progress, tmp the counter value its `+= 1` has loaded.
\* An image object: where it came from, the resize factor and overlay it
\* was processed with, and n, its place in the order of acquisition (the
\* ticks begun and frames fed when it was acquired)
NoImage == [src |-> "none", resize_factor |-> 0, add_timestamp |-> FALSE, n |-> 0]

NoThread == [pc |-> "new", img |-> NoImage, tmp |-> 0]

TickPcs == {"acquire", "publish", "stamp", "load", "store", "dispatch", "except", "fstore", "sleep"}

is_alive(t) == loops[t].pc \notin {"new", "dead"}

AliveLoops == {t \in Threads : is_alive(t)}

Senders == 1 .. MaxSenders

\* a thread object running send_async: pc is "new", "next" (at the `for`
\* statement), "post" (inside requests.post) or "dead"; i is the position of
\* the list iterator, url the target in hand, fmt the format read for it,
\* attempt the rung, answers what its POSTs were answered so far, result how
\* _send_image_to_url ended for it ("sent": it returned, "failed": it
\* raised), img the frame handed to the thread, log the targets it has
\* finished with, levels the quality ladder computed for the target in hand,
\* sent the payloads of the POSTs made to it, delivered the targets a POST
\* to which has succeeded
NoSender == [pc |-> "new", i |-> 0, url |-> None, fmt |-> None, attempt |-> 0,
             answers |-> <<>>, result |-> None, img |-> NoImage, log |-> <<>>,
             levels |-> <<>>, sent |-> <<>>, delivered |-> {}]

DeadSender == [NoSender EXCEPT !.pc = "dead"]

\* the request thread of test_webhook outside a test: the URL tested last,
\* the format read for it, the rung and what its POSTs were answered
NoTest == [url |-> None, fmt |-> None, attempt |-> 0, answers |-> <<>>]

\* the caller of feed_external_image outside a call: the processed frame and
\* the counter value its `+= 1` has loaded
NoFeed == [img |-> NoImage, tmp |-> 0]

\* the list object made at line 43, the only list the service ever stores
\* under 'webhook_urls': config.webhook_urls is its contents
ListOfConfig == "list of line 43"

\* the client holds no dict; otherwise d is the dict (a list value is the
\* list object, not its contents) and edits counts the changes the client
\* has made to it
NoSnapshot == [taken |-> FALSE, d |-> <<>>, edits |-> 0]

\* the request threads that call add_webhook_url concurrently
Callers == 1 .. 2

\* a request thread outside add_webhook_url: pc is "idle" or "append" (the
\* membership test has found the URL absent), url the argument and val the
\* value returned by its last call
NoAdder == [pc |-> "idle", url |-> None, val |-> None]

\* the history of stamps: kept when on, of is the set of pairs <<frame,
\* capture time written for it>>
NoStamps == [on |-> FALSE, of |-> {}]

\* the request thread of GET /api/image/latest outside a request: pc is
\* "idle", "time" (the frame has been read) or "done", img the frame
\* get_latest_image returned and time what get_last_capture_time returned
NoReader == [pc |-> "idle", img |-> NoImage, time |-> 0]

\* a request thread outside update_config: i is the field its call looks at
\* next (0 outside a call), new_config its argument and before the
\* configuration at the call
NoUpdater == [i |-> 0, new_config |-> <<>>, before |-> <<>>]

\* no frame is followed through _optimize_image_for_webhook; otherwise pc
\* is "call" before the call and "done" after it, width and height the
\* size of the frame, raised whether the call raised, and out_width and
\* out_height the size of the frame it returned
NoFrame == [pc |-> "none", width |-> 0, height |-> 0, raised |-> FALSE,
            out_width |-> 0, out_height |-> 0]

\* no concurrent reader or writer, no history, no failing processor step
NoHistory ==
    /\ stamps = NoStamps
    /\ reader = NoReader
    /\ updater = NoUpdater
    /\ faults = {}
    /\ frame = NoFrame

\* the sender thread a dispatch creates: the first unused one; Thread.start()
\* raises RuntimeError when the process can have no more threads
FreeSenders == {s \in Senders : senders[s].pc \in {"new", "dead"}}
NewSender == CHOOSE s \in FreeSenders : \A u \in FreeSenders : s <= u

---------------------------------------------------------------------------
(* The inputs the API calls are tried with.                                *)
FieldInputs(f) ==
    CASE f = "interval" -> {PyIntV(7), PyIntV(0 - 1), PyNaN}
      [] f = "quality" -> {PyIntV(50), PyIntV(0), PyFloatV(857), PyText}
      [] f = "resize_factor" -> {PyFloatV(10), PyIntV(0)}
      [] f = "add_timestamp" -> {PyBoolV(FALSE), PyText}
      [] f = "monitor" -> {PyIntV(1), PyIntV(0 - 1), PyNone}
      [] OTHER -> {PyIntV(40)}

InputFields == {"interval", "quality", "resize_factor", "add_timestamp", "monitor", "webhook_quality"}

\* the dicts with exactly the keys F, each with one of its inputs
RECURSIVE Dicts(_)
Dicts(F) ==
    IF F = {} THEN {<<>>}
    ELSE LET f == CHOOSE g \in F : TRUE IN
         {(f :> x) @@ d : x \in FieldInputs(f), d \in Dicts(F \ {f})}

\* the partial updates: any set of fields, each with one of its inputs
ConfigInputs == UNION {Dicts(F) : F \in SUBSET InputFields}

---------------------------------------------------------------------------
(* get_config, get_stats: a dict.copy() is one step of the interpreter.    *)
\* The copy is shallow: each key of the new dict refers to the value object
\* the configuration refers to, so the list under 'webhook_urls' is shared.
get_config == [config EXCEPT !.webhook_urls = ListOfConfig]

\* the contents of a list object
ListContents(ref) == IF ref = ListOfConfig THEN config.webhook_urls ELSE <<>>

\* what the client reads in the dict it holds
SnapshotContents ==
    IF snapshot.taken THEN [snapshot.d EXCEPT !.webhook_urls = ListContents(@)] ELSE <<>>

get_stats ==
    IF stats.start_time # 0 /\ capturing
    THEN [total_captures |-> stats.total_captures, failed_captures |-> stats.failed_captures,
          start_time |-> stats.start_time, uptime_seconds |-> clock - stats.start_time]
    ELSE [total_captures |-> stats.total_captures, failed_captures |-> stats.failed_captures,
          start_time |-> stats.start_time, uptime_seconds |-> 0 - 1]

\* no status query has just returned
NoView == [total_captures |-> 0, failed_captures |-> 0, start_time |-> 0,
           uptime_seconds |-> 0 - 1, during |-> "none"]

\* a status query, from a request thread of its own: what it returns, and
\* the statement of start_capture the API caller was at when the copy was made
GetStats ==
    /\ stats_view = NoView
    /\ stats_view' = [total_captures |-> get_stats.total_captures,
                      failed_captures |-> get_stats.failed_captures,
                      start_time |-> get_stats.start_time,
                      uptime_seconds |-> get_stats.uptime_seconds,
                      during |-> pc]
    /\ UNCHANGED <<CAPTURE_LIBRARY, capturing, capture_thread, latest_image, last_capture_time,
                   last_error, stats, config, loops, pc, call, clock, calls, ticks, data, dvars>>

Init ==
    /\ CAPTURE_LIBRARY \in {"mss", None}
    /\ capturing = FALSE
    /\ capture_thread = 0
    /\ latest_image = NoImage
    /\ last_capture_time = 0
    /\ last_error = None
    /\ stats = [total_captures |-> 0, failed_captures |-> 0, start_time |-> 0]
    /\ config = [interval |-> 10, quality |-> 85, resize_factor |-> 5,
                 add_timestamp |-> TRUE, monitor |-> 0, webhook_urls |-> <<>>,
                 send_to_external |-> FALSE, external_format |-> "base64",
                 webhook_quality |-> 60, webhook_max_width |-> 1280,
                 webhook_max_height |-> 720]
    /\ loops = [t \in Threads |-> NoThread]
    /\ pc = "idle"
    /\ call = [op |-> None, args |-> <<>>, val |-> None, line |-> 0]
    /\ stats_view = NoView
    /\ clock = 0
    /\ calls = 0
    /\ ticks = 0
    /\ data = <<>>
    /\ senders = [s \in Senders |-> NoSender]
    /\ feeder = NoFeed
    /\ test = NoTest
    /\ numbering = FALSE
    /\ NoHistory
    /\ snapshot = NoSnapshot
    /\ adders = [c \in Callers |-> NoAdder]

---------------------------------------------------------------------------
(* update_config (lines 103-140), one call by the API caller.  The fields  *)
(* stored before the failing one stay stored: nothing is rolled back.      *)
update_config(new_config) ==
    /\ pc = "idle"
    /\ calls < MaxCalls
    /\ LET r == ApplyFields(config, new_config, 1) IN
          /\ config' = r.cfg
          /\ last_error' = IF r.ok THEN last_error ELSE r.err
          /\ call' = [op |-> "update_config", args |-> <<>>,
                      val |-> IF r.ok THEN "True" ELSE "False",
                      line |-> IF r.ok THEN 135 ELSE 140]
    /\ calls' = calls + 1
    /\ stats_view' = NoView
    /\ UNCHANGED <<CAPTURE_LIBRARY, capturing, capture_thread, latest_image,
                   last_capture_time, stats, loops, pc, clock, ticks, data, dvars>>

---------------------------------------------------------------------------
(* start_capture (lines 142-176).                                          *)
\* lines 152-156: the overrides are converted and stored, not validated;
\* a conversion that raises leaves start_capture with the exception
Overrides(cfg, interval, quality) ==
    LET ci == float(interval)
        c1 == IF interval = PyNone THEN cfg ELSE [cfg EXCEPT !.interval = ci.v]
        cq == int(quality)
    IN  IF interval # PyNone /\ ~ci.ok THEN [cfg |-> cfg, ok |-> FALSE]
        ELSE IF quality = PyNone THEN [cfg |-> c1, ok |-> TRUE]
        ELSE IF ~cq.ok THEN [cfg |-> c1, ok |-> FALSE]
        ELSE [cfg |-> [c1 EXCEPT !.quality = cq.v], ok |-> TRUE]

\* the thread object start_capture creates: the first unused one
FreeThreads == {t \in Threads : ~is_alive(t)}
NewThread == CHOOSE t \in FreeThreads : \A u \in FreeThreads : t <= u

\* a start_capture without the already-running test
AlreadyRunningNever == FALSE

\* line 148
AlreadyRunning == capturing

\* lines 144-146: no capture library
StartNoLibrary ==
    /\ pc = "idle" /\ calls < MaxCalls
    /\ CAPTURE_LIBRARY = None
    /\ last_error' = "No screen capture library available"
    /\ call' = [op |-> "start_capture", args |-> <<>>, val |-> "False", line |-> 146]
    /\ calls' = calls + 1
    /\ stats_view' = NoView
    /\ UNCHANGED <<CAPTURE_LIBRARY, capturing, capture_thread, latest_image,
                   last_capture_time, stats, config, loops, pc, clock, ticks, data, dvars>>

\* lines 148-150: already running
StartRunning ==
    /\ pc = "idle" /\ calls < MaxCalls
    /\ CAPTURE_LIBRARY # None
    /\ AlreadyRunning
    /\ call' = [op |-> "start_capture", args |-> <<>>, val |-> "True", line |-> 150]
    /\ calls' = calls + 1
    /\ stats_view' = NoView
    /\ UNCHANGED <<CAPTURE_LIBRARY, capturing, capture_thread, latest_image, last_capture_time,
                   last_error, stats, config, loops, pc, clock, ticks, data, dvars>>

\* lines 152-159: overrides, then _capturing = True
StartBegin(interval, quality) ==
    /\ pc = "idle" /\ calls < MaxCalls
    /\ CAPTURE_LIBRARY # None
    /\ ~AlreadyRunning
    /\ FreeThreads # {}
    /\ LET o == Overrides(config, interval, quality) IN
          /\ config' = o.cfg
          /\ IF o.ok
             THEN /\ capturing' = TRUE
                  /\ pc' = "start_time"
                  /\ call' = [op |-> "start_capture", args |-> <<interval, quality>>,
                              val |-> "pending", line |-> 0]
             ELSE /\ call' = [op |-> "start_capture", args |-> <<>>, val |-> "raise",
                              line |-> IF interval # PyNone /\ ~float(interval).ok
                                       THEN 154 ELSE 156]
                  /\ UNCHANGED <<capturing, pc>>
    /\ calls' = calls + 1
    /\ stats_view' = NoView
    /\ UNCHANGED <<CAPTURE_LIBRARY, capture_thread, latest_image, last_capture_time,
                   last_error, stats, loops, clock, ticks, data, dvars>>

\* line 160
StartTime ==
    /\ pc = "start_time"
    /\ clock' = clock + 1
    /\ stats' = [stats EXCEPT !.start_time = clock + 1]
    /\ pc' = "reset_total"
    /\ stats_view' = NoView
    /\ UNCHANGED <<CAPTURE_LIBRARY, capturing, capture_thread, latest_image, last_capture_time,
                   last_error, config, loops, call, calls, ticks, data, dvars>>

\* line 161
ResetTotal ==
    /\ pc = "reset_total"
    /\ stats' = [stats EXCEPT !.total_captures = 0]
    /\ pc' = "reset_failed"
    /\ stats_view' = NoView
    /\ UNCHANGED <<CAPTURE_LIBRARY, capturing, capture_thread, latest_image, last_capture_time,
                   last_error, config, loops, call, clock, calls, ticks, data, dvars>>

\* line 162
ResetFailed ==
    /\ pc = "reset_failed"
    /\ stats' = [stats EXCEPT !.failed_captures = 0]
    /\ pc' = "clear_error"
    /\ stats_view' = NoView
    /\ UNCHANGED <<CAPTURE_LIBRARY, capturing, capture_thread, latest_image, last_capture_time,
                   last_error, config, loops, call, clock, calls, ticks, data, dvars>>

\* line 163
ClearError ==
    /\ pc = "clear_error"
    /\ last_error' = None
    /\ pc' = "launch"
    /\ stats_view' = NoView
    /\ UNCHANGED <<CAPTURE_LIBRARY, capturing, capture_thread, latest_image, last_capture_time,
                   stats, config, loops, call, clock, calls, ticks, data, dvars>>

\* lines 165-170: the thread is created and started, start_capture returns
Launch ==
    /\ pc = "launch"
    /\ loops' = [loops EXCEPT ![NewThread] = [pc |-> "check", img |-> NoImage, tmp |-> 0]]
    /\ capture_thread' = NewThread
    /\ call' = [op |-> "start_capture", args |-> <<>>, val |-> "True", line |-> 170]
    /\ pc' = "idle"
    /\ stats_view' = NoView
    /\ UNCHANGED <<CAPTURE_LIBRARY, capturing, latest_image, last_capture_time,
                   last_error, stats, config, clock, calls, ticks, data, dvars>>

\* lines 172-176: Thread.start() raised (no thread can be created)
LaunchFails ==
    /\ pc = "launch"
    /\ last_error' = "can't start new thread"
    /\ capturing' = FALSE
    /\ call' = [op |-> "start_capture", args |-> <<>>, val |-> "False", line |-> 176]
    /\ pc' = "idle"
    /\ stats_view' = NoView
    /\ UNCHANGED <<CAPTURE_LIBRARY, capture_thread, latest_image, last_capture_time,
                   stats, config, loops, clock, calls, ticks, data, dvars>>

---------------------------------------------------------------------------
(* stop_capture (lines 178-190).                                           *)

\* a stop_capture that counts a stop while idle as a failed capture
StopIdleCountsFailure ==
    /\ pc = "idle" /\ calls < MaxCalls
    /\ ~capturing
    /\ stats' = [stats EXCEPT !.failed_captures = @ + 1]
    /\ call' = [op |-> "stop_capture", args |-> <<>>, val |-> "None", line |-> 182]
    /\ calls' = calls + 1
    /\ stats_view' = NoView
    /\ UNCHANGED <<CAPTURE_LIBRARY, capturing, capture_thread, latest_image, last_capture_time,
                   last_error, config, loops, pc, clock, ticks, data, dvars>>

\* lines 180-182: not running, nothing is touched
StopIdle ==
    /\ pc = "idle" /\ calls < MaxCalls
    /\ ~capturing
    /\ call' = [op |-> "stop_capture", args |-> <<>>, val |-> "None", line |-> 182]
    /\ calls' = calls + 1
    /\ stats_view' = NoView
    /\ UNCHANGED <<CAPTURE_LIBRARY, capturing, capture_thread, latest_image, last_capture_time,
                   last_error, stats, config, loops, pc, clock, ticks, data, dvars>>

\* lines 184-188: the flag is cleared, then the caller joins the thread
\* launched last if it is alive
StopBegin ==
    /\ pc = "idle" /\ calls < MaxCalls
    /\ capturing
    /\ capturing' = FALSE
    /\ IF capture_thread # 0 /\ is_alive(capture_thread)
       THEN /\ pc' = "join"
            /\ call' = [op |-> "stop_capture", args |-> <<>>, val |-> "pending", line |-> 0]
       ELSE /\ pc' = "idle"
            /\ call' = [op |-> "stop_capture", args |-> <<>>, val |-> "None", line |-> 190]
    /\ calls' = calls + 1
    /\ stats_view' = NoView
    /\ UNCHANGED <<CAPTURE_LIBRARY, capture_thread, latest_image, last_capture_time,
                   last_error, stats, config, loops, clock, ticks, data, dvars>>

\* line 188: join returns because the thread has ended
JoinReturns ==
    /\ pc = "join"
    /\ ~is_alive(capture_thread)
    /\ pc' = "idle"
    /\ call' = [op |-> "stop_capture", args |-> <<>>, val |-> "None", line |-> 190]
    /\ stats_view' = NoView
    /\ UNCHANGED <<CAPTURE_LIBRARY, capturing, capture_thread, latest_image, last_capture_time,
                   last_error, stats, config, loops, clock, calls, ticks, data, dvars>>

\* line 188: join(timeout=5.0) returns with the thread still alive: the
\* thread was inside a frame grab or a sleep that outlasts the timeout
JoinTimesOut ==
    /\ pc = "join"
    /\ is_alive(capture_thread)
    /\ pc' = "idle"
    /\ call' = [op |-> "stop_capture", args |-> <<>>, val |-> "None", line |-> 190]
    /\ stats_view' = NoView
    /\ UNCHANGED <<CAPTURE_LIBRARY, capturing, capture_thread, latest_image, last_capture_time,
                   last_error, stats, config, loops, clock, calls, ticks, data, dvars>>

---------------------------------------------------------------------------
(* _capture_loop (lines 192-227), thread t.                                *)
Goto(t, l) == [loops EXCEPT ![t].pc = l]

\* a loop that never looks at the flag again: `while True`
LoopCheckIgnoresFlag(t) ==
    /\ loops[t].pc = "check"
    /\ ticks < MaxTicks
    /\ ticks' = ticks + 1
    /\ loops' = Goto(t, "acquire")
    /\ stats_view' = NoView
    /\ UNCHANGED <<CAPTURE_LIBRARY, capturing, capture_thread, latest_image, last_capture_time,
                   last_error, stats, config, pc, call, clock, calls, data, dvars>>

\* line 196: `while self._capturing`
LoopCheck(t) ==
    /\ loops[t].pc = "check"
    /\ IF capturing
       THEN /\ ticks < MaxTicks
            /\ ticks' = ticks + 1
            /\ loops' = Goto(t, "acquire")
       ELSE /\ loops' = Goto(t, "dead")
            /\ UNCHANGED ticks
    /\ stats_view' = NoView
    /\ UNCHANGED <<CAPTURE_LIBRARY, capturing, capture_thread, latest_image, last_capture_time,
                   last_error, stats, config, pc, call, clock, calls, data, dvars>>

\* line 337 is reached when the factor is not 1.0, and raises in a behaviour
\* whose resize fails
ResizeRaises(cfg) == cfg.resize_factor # 10 /\ "resize" \in faults

\* _add_timestamp (lines 349-387) catches what its drawing raises and
\* returns the image it was given
add_timestamp(cfg) == cfg.add_timestamp /\ "timestamp" \notin faults

\* _process_image (lines 328-347): the frame, the resize factor applied to
\* it and whether it carries the timestamp overlay.  When the resize raises,
\* the handler at lines 345-347 returns the image as it was acquired: the
\* timestamp block is not reached
process_image(src, cfg) ==
    IF ResizeRaises(cfg)
    THEN [src |-> src, resize_factor |-> 10, add_timestamp |-> FALSE, n |-> 0]
    ELSE [src |-> src, resize_factor |-> cfg.resize_factor,
          add_timestamp |-> add_timestamp(cfg), n |-> 0]

\* the history after time has been written as the capture time of img
Stamped(img, time) ==
    IF stamps.on THEN [stamps EXCEPT !.of = @ \cup {<<img, time>>}] ELSE stamps

\* the image object img as the k-th acquired frame
Acquired(img, k) == [img EXCEPT !.n = IF numbering THEN k ELSE 0]

\* lines 199-203: _capture_screenshot returns the grabbed frame, or the
\* test image when there is no display or the grab raised; it raises only
\* when the test image cannot be drawn either
LoopAcquire(t) ==
    /\ loops[t].pc = "acquire"
    /\ \E outcome \in {"screen", "test_image", "raise"} :
          loops' = IF outcome = "raise" THEN Goto(t, "except")
                   ELSE [loops EXCEPT ![t].pc = "publish",
                                      ![t].img = Acquired(process_image(outcome, config),
                                                          ticks + calls)]
    /\ stats_view' = NoView
    /\ UNCHANGED <<CAPTURE_LIBRARY, capturing, capture_thread, latest_image, last_capture_time,
                   last_error, stats, config, pc, call, clock, calls, ticks, data, dvars>>

\* line 206
LoopPublish(t) ==
    /\ loops[t].pc = "publish"
    /\ latest_image' = loops[t].img
    /\ loops' = Goto(t, "stamp")
    /\ stats_view' = NoView
    /\ UNCHANGED <<CAPTURE_LIBRARY, capturing, capture_thread, last_capture_time,
                   last_error, stats, config, pc, call, clock, calls, ticks, data, dvars>>

\* line 207
LoopStamp(t) ==
    /\ loops[t].pc = "stamp"
    /\ clock' = clock + 1
    /\ last_capture_time' = clock + 1
    /\ stamps' = Stamped(loops[t].img, clock + 1)
    /\ loops' = Goto(t, "load")
    /\ stats_view' = NoView
    /\ UNCHANGED <<CAPTURE_LIBRARY, capturing, capture_thread, latest_image,
                   last_error, stats, config, pc, call, calls, ticks, data,
                   senders, feeder, test, numbering, snapshot, adders, reader, updater,
                   faults, frame>>

\* line 208, `+= 1` reads the counter ...
LoopLoad(t) ==
    /\ loops[t].pc = "load"
    /\ loops' = [loops EXCEPT ![t].pc = "store", ![t].tmp = stats.total_captures]
    /\ stats_view' = NoView
    /\ UNCHANGED <<CAPTURE_LIBRARY, capturing, capture_thread, latest_image, last_capture_time,
                   last_error, stats, config, pc, call, clock, calls, ticks, data, dvars>>

\* ... and stores the sum
LoopStore(t) ==
    /\ loops[t].pc = "store"
    /\ stats' = [stats EXCEPT !.total_captures = loops[t].tmp + 1]
    /\ loops' = [loops EXCEPT ![t].pc = "dispatch", ![t].tmp = 0]
    /\ stats_view' = NoView
    /\ UNCHANGED <<CAPTURE_LIBRARY, capturing, capture_thread, latest_image, last_capture_time,
                   last_error, config, pc, call, clock, calls, ticks, data, dvars>>

\* _send_to_external_systems (lines 409-432) is called when send_to_external
\* is set; with a webhook URL configured it starts a thread running
\* send_async on the frame and returns
\* a dispatch that looks at the target list only
DeliversToAnyTarget == config.webhook_urls # <<>>

Delivers == config.send_to_external /\ config.webhook_urls # <<>>

\* line 432: the thread started for frame img
StartedSender(img) == [NoSender EXCEPT !.pc = "next", !.img = img]

\* a dispatch that waits until the deliveries dispatched before have ended
LoopDispatchWaits(t) ==
    /\ loops[t].pc = "dispatch"
    /\ \A s \in Senders : senders[s].pc \in {"new", "dead"}
    /\ IF Delivers /\ FreeSenders # {}
       THEN /\ senders' = [senders EXCEPT ![NewSender] = StartedSender(loops[t].img)]
            /\ loops' = [loops EXCEPT ![t].pc = "sleep", ![t].img = NoImage]
       ELSE /\ loops' = [loops EXCEPT ![t].pc = IF Delivers THEN "except" ELSE "sleep",
                                      ![t].img = NoImage]
            /\ UNCHANGED senders
    /\ stats_view' = NoView
    /\ UNCHANGED <<CAPTURE_LIBRARY, capturing, capture_thread, latest_image, last_capture_time,
                   last_error, stats, config, pc, call, clock, calls, ticks, data, feeder, test, xvars>>

\* lines 213-214: the frame is handed to a new sender thread, nothing is
\* waited for; a Thread.start() that raises is caught by the tick's handler
LoopDispatch(t) ==
    /\ loops[t].pc = "dispatch"
    /\ IF Delivers /\ FreeSenders # {}
       THEN /\ senders' = [senders EXCEPT ![NewSender] = StartedSender(loops[t].img)]
            /\ loops' = [loops EXCEPT ![t].pc = "sleep", ![t].img = NoImage]
       ELSE /\ loops' = [loops EXCEPT ![t].pc = IF Delivers THEN "except" ELSE "sleep",
                                      ![t].img = NoImage]
            /\ UNCHANGED senders
    /\ stats_view' = NoView
    /\ UNCHANGED <<CAPTURE_LIBRARY, capturing, capture_thread, latest_image, last_capture_time,
                   last_error, stats, config, pc, call, clock, calls, ticks, data, feeder, test, xvars>>

\* lines 219-222: the handler records the error and reads the failure counter ...
LoopExcept(t) ==
    /\ loops[t].pc = "except"
    /\ last_error' = "capture error"
    /\ loops' = [loops EXCEPT ![t].pc = "fstore", ![t].tmp = stats.failed_captures]
    /\ stats_view' = NoView
    /\ UNCHANGED <<CAPTURE_LIBRARY, capturing, capture_thread, latest_image, last_capture_time,
                   stats, config, pc, call, clock, calls, ticks, data, dvars>>

\* ... and stores the sum
LoopFailStore(t) ==
    /\ loops[t].pc = "fstore"
    /\ stats' = [stats EXCEPT !.failed_captures = loops[t].tmp + 1]
    /\ loops' = [loops EXCEPT ![t].pc = "sleep", ![t].tmp = 0]
    /\ stats_view' = NoView
    /\ UNCHANGED <<CAPTURE_LIBRARY, capturing, capture_thread, latest_image, last_capture_time,
                   last_error, config, pc, call, clock, calls, ticks, data, dvars>>

\* time.sleep raises ValueError for a negative or NaN length
SleepRaises(secs) == secs = NaN \/ secs < 0

\* line 225, outside the try block: the sleep ends, or its ValueError ends
\* the thread
LoopSleep(t) ==
    /\ loops[t].pc = "sleep"
    /\ loops' = IF SleepRaises(config.interval) THEN Goto(t, "dead") ELSE Goto(t, "check")
    /\ stats_view' = NoView
    /\ UNCHANGED <<CAPTURE_LIBRARY, capturing, capture_thread, latest_image, last_capture_time,
                   last_error, stats, config, pc, call, clock, calls, ticks, data, dvars>>

LoopStep(t) ==
    \/ LoopCheck(t) \/ LoopAcquire(t) \/ LoopPublish(t) \/ LoopStamp(t)
    \/ LoopLoad(t) \/ LoopStore(t) \/ LoopDispatch(t)
    \/ LoopExcept(t) \/ LoopFailStore(t) \/ LoopSleep(t)

---------------------------------------------------------------------------
(* _send_image_to_url (lines 434-545): one requests.post per step; the     *)
(* answer is the endpoint's status, or the exception requests raised.      *)
Responses == {"200", "413", "500", "ConnectionError", "Timeout"}

\* line 444
max_attempts == 3

\* line 445: the quality of each rung (max() floors the second and third)
Max(a, b) == IF a >= b THEN a ELSE b

quality_levels(webhook_quality) ==
    <<webhook_quality, Max(webhook_quality - 20, 30), Max(webhook_quality - 40, 20)>>

\* line 446, in tenths
resize_factors == <<10, 8, 6>>

\* a ladder that goes on to the next rung after every failure
AfterResponseRetriesAll(fmt, attempt, resp) ==
    IF resp = "200" THEN [next |-> "return", err |-> None]
    ELSE IF fmt = "base64" /\ attempt + 1 < max_attempts THEN [next |-> "retry", err |-> None]
    ELSE [next |-> "raise", err |-> resp]

\* what the function does with the answer to the POST of rung `attempt`.
\* base64 (lines 448-512): 413 goes on to the next rung (line 496) and the
\* exhausted loop raises (line 512); 2xx returns (line 500); any other
\* status is raised by raise_for_status and re-raised (line 509); an
\* exception of requests.post is not an HTTPError and leaves the function.
\* multipart (lines 532-545): one POST, raise_for_status, no ladder.
AfterResponse(fmt, attempt, resp) ==
    IF fmt = "base64"
    THEN CASE resp = "413" ->
                 IF attempt + 1 < max_attempts THEN [next |-> "retry", err |-> None]
                 ELSE [next |-> "raise",
                       err |-> "Failed to send image after 3 attempts with different sizes"]
           [] resp = "200" -> [next |-> "return", err |-> None]
           [] OTHER -> [next |-> "raise", err |-> resp]
    ELSE IF resp = "200" THEN [next |-> "return", err |-> None]
         ELSE [next |-> "raise", err |-> resp]

---------------------------------------------------------------------------
(* send_async (lines 421-429), thread s.  The list it iterates is the list *)
(* object stored in the configuration, not a copy of it.                   *)

\* a sender thread that looks at the capturing flag between two targets and
\* gives up when it is cleared
SendNextUnlessStopped(s) ==
    /\ senders[s].pc = "next"
    /\ senders' = IF capturing /\ senders[s].i < Len(config.webhook_urls)
                  THEN [senders EXCEPT ![s].pc = "post",
                                       ![s].i = @ + 1,
                                       ![s].url = config.webhook_urls[senders[s].i + 1],
                                       ![s].fmt = config.external_format,
                                       ![s].attempt = 0,
                                       ![s].answers = <<>>,
                                       ![s].result = None,
                                       ![s].levels =
                                           IF config.external_format = "base64"
                                           THEN quality_levels(config.webhook_quality)
                                           ELSE <<>>,
                                       ![s].sent = <<>>]
                  ELSE [senders EXCEPT ![s] = DeadSender]
    /\ stats_view' = NoView
    /\ UNCHANGED <<CAPTURE_LIBRARY, capturing, capture_thread, latest_image, last_capture_time,
                   last_error, stats, config, loops, pc, call, clock, calls, ticks, data,
                   feeder, test, xvars>>

\* line 422, the `for` statement asks the list iterator for the next URL;
\* lines 436-446, _send_image_to_url reads the format
SendNext(s) ==
    /\ senders[s].pc = "next"
    /\ senders' = IF senders[s].i < Len(config.webhook_urls)
                  THEN [senders EXCEPT ![s].pc = "post",
                                       ![s].i = @ + 1,
                                       ![s].url = config.webhook_urls[senders[s].i + 1],
                                       ![s].fmt = config.external_format,
                                       ![s].attempt = 0,
                                       ![s].answers = <<>>,
                                       ![s].result = None,
                                       ![s].levels =
                                           IF config.external_format = "base64"
                                           THEN quality_levels(config.webhook_quality)
                                           ELSE <<>>,
                                       ![s].sent = <<>>]
                  ELSE [senders EXCEPT ![s] = DeadSender]
    /\ stats_view' = NoView
    /\ UNCHANGED <<CAPTURE_LIBRARY, capturing, capture_thread, latest_image, last_capture_time,
                   last_error, stats, config, loops, pc, call, clock, calls, ticks, data,
                   feeder, test, xvars>>

\* a payload that is encoded from the frame published last
PayloadOfLatest(s) ==
    IF senders[s].fmt = "base64"
    THEN [img |-> latest_image, quality |-> senders[s].levels[senders[s].attempt + 1],
          resize |-> resize_factors[senders[s].attempt + 1], timestamp |-> 0]
    ELSE [img |-> latest_image, quality |-> config.quality, resize |-> 10,
          timestamp |-> last_capture_time]

\* what thread s posts on the rung it is at: the frame it encodes, the
\* JPEG quality and the resize factor of the encoding, and the
\* timestamp field.  base64 (lines 449-474): the frame given to the thread,
\* resized and encoded as the rung says, no timestamp.  multipart (lines
\* 516-527): the frame given to the thread at the display quality, and the
\* last capture time as it is when the POST is made.
Payload(s) ==
    IF senders[s].fmt = "base64"
    THEN [img |-> senders[s].img, quality |-> senders[s].levels[senders[s].attempt + 1],
          resize |-> resize_factors[senders[s].attempt + 1], timestamp |-> 0]
    ELSE [img |-> senders[s].img, quality |-> config.quality, resize |-> 10,
          timestamp |-> last_capture_time]

\* lines 481-509 or 532-544: one POST and what follows from its answer;
\* lines 427-429: an exception is caught, recorded, and the loop goes on
SendPost(s) ==
    /\ senders[s].pc = "post"
    /\ \E resp \in Responses :
          LET r == AfterResponse(senders[s].fmt, senders[s].attempt, resp) IN
              /\ senders' =
                    CASE r.next = "retry" ->
                            [senders EXCEPT ![s].attempt = @ + 1,
                                            ![s].answers = Append(@, resp),
                                            ![s].sent = Append(@, Payload(s))]
                      [] r.next = "return" ->
                            [senders EXCEPT ![s].pc = "next", ![s].result = "sent",
                                            ![s].answers = Append(@, resp),
                                            ![s].sent = Append(@, Payload(s)),
                                            ![s].delivered = @ \cup {senders[s].url},
                                            ![s].log = Append(@, senders[s].url)]
                      [] OTHER ->
                            [senders EXCEPT ![s].pc = "next", ![s].result = "failed",
                                            ![s].answers = Append(@, resp),
                                            ![s].sent = Append(@, Payload(s)),
                                            ![s].log = Append(@, senders[s].url)]
              /\ last_error' = IF r.next = "raise"
                               THEN "Webhook send failed to " \o senders[s].url \o ": " \o r.err
                               ELSE last_error
    /\ stats_view' = NoView
    /\ UNCHANGED <<CAPTURE_LIBRARY, capturing, capture_thread, latest_image, last_capture_time,
                   stats, config, loops, pc, call, clock, calls, ticks, data, feeder, test, xvars>>

SendStep(s) == SendNext(s) \/ SendPost(s)

---------------------------------------------------------------------------
(* feed_external_image (lines 84-101), called by the API caller.           *)

\* the frames a caller feeds
Frames == {"external"}

\* lines 87-88: the frame is processed and published
FeedBegin(image) ==
    /\ pc = "idle" /\ calls < MaxCalls
    /\ feeder' = [img |-> Acquired(process_image(image, config), ticks + calls + 1),
                   tmp |-> 0]
    /\ latest_image' = Acquired(process_image(image, config), ticks + calls + 1)
    /\ pc' = "feed_stamp"
    /\ call' = [op |-> "feed_external_image", args |-> <<image>>, val |-> "pending", line |-> 0]
    /\ calls' = calls + 1
    /\ stats_view' = NoView
    /\ UNCHANGED <<CAPTURE_LIBRARY, capturing, capture_thread, last_capture_time,
                   last_error, stats, config, loops, clock, ticks, data, senders, test, xvars>>

\* line 89
FeedStamp ==
    /\ pc = "feed_stamp"
    /\ clock' = clock + 1
    /\ last_capture_time' = clock + 1
    /\ stamps' = Stamped(feeder.img, clock + 1)
    /\ pc' = "feed_load"
    /\ stats_view' = NoView
    /\ UNCHANGED <<CAPTURE_LIBRARY, capturing, capture_thread, latest_image,
                   last_error, stats, config, loops, call, calls, ticks, data,
                   senders, feeder, test, numbering, snapshot, adders, reader, updater,
                   faults, frame>>

\* line 90, `+= 1` reads the counter ...
FeedLoad ==
    /\ pc = "feed_load"
    /\ feeder' = [feeder EXCEPT !.tmp = stats.total_captures]
    /\ pc' = "feed_store"
    /\ stats_view' = NoView
    /\ UNCHANGED <<CAPTURE_LIBRARY, capturing, capture_thread, latest_image, last_capture_time,
                   last_error, stats, config, loops, call, clock, calls, ticks, data,
                   senders, test, xvars>>

\* ... and stores the sum
FeedStore ==
    /\ pc = "feed_store"
    /\ stats' = [stats EXCEPT !.total_captures = feeder.tmp + 1]
    /\ feeder' = [feeder EXCEPT !.tmp = 0]
    /\ pc' = "feed_dispatch"
    /\ stats_view' = NoView
    /\ UNCHANGED <<CAPTURE_LIBRARY, capturing, capture_thread, latest_image, last_capture_time,
                   last_error, config, loops, call, clock, calls, ticks, data, senders, test, xvars>>

\* lines 93-96: the frame is handed to a new sender thread and the call
\* returns True; a Thread.start() that raises goes to the handler
FeedDispatch ==
    /\ pc = "feed_dispatch"
    /\ IF Delivers /\ FreeSenders = {}
       THEN /\ pc' = "feed_except"
            /\ UNCHANGED <<senders, feeder, call>>
       ELSE /\ senders' = IF Delivers
                          THEN [senders EXCEPT ![NewSender] = StartedSender(feeder.img)]
                          ELSE senders
            /\ feeder' = NoFeed
            /\ call' = [call EXCEPT !.val = "True", !.line = 96]
            /\ pc' = "idle"
    /\ stats_view' = NoView
    /\ UNCHANGED <<CAPTURE_LIBRARY, capturing, capture_thread, latest_image, last_capture_time,
                   last_error, stats, config, loops, clock, calls, ticks, data, test, xvars>>

\* lines 97-100: the handler records the error and reads the failure counter ...
FeedExcept ==
    /\ pc = "feed_except"
    /\ last_error' = "can't start new thread"
    /\ feeder' = [feeder EXCEPT !.tmp = stats.failed_captures]
    /\ pc' = "feed_fstore"
    /\ stats_view' = NoView
    /\ UNCHANGED <<CAPTURE_LIBRARY, capturing, capture_thread, latest_image, last_capture_time,
                   stats, config, loops, call, clock, calls, ticks, data, senders, test, xvars>>

\* ... stores the sum (line 100) and returns False (line 101)
FeedFailStore ==
    /\ pc = "feed_fstore"
    /\ stats' = [stats EXCEPT !.failed_captures = feeder.tmp + 1]
    /\ feeder' = NoFeed
    /\ call' = [call EXCEPT !.val = "False", !.line = 101]
    /\ pc' = "idle"
    /\ stats_view' = NoView
    /\ UNCHANGED <<CAPTURE_LIBRARY, capturing, capture_thread, latest_image, last_capture_time,
                   last_error, config, loops, clock, calls, ticks, data, senders, test, xvars>>

FeedStep == FeedStamp \/ FeedLoad \/ FeedStore \/ FeedDispatch \/ FeedExcept \/ FeedFailStore

---------------------------------------------------------------------------
(* test_webhook (src/app.py lines 384-423), a request of the API caller:   *)
(* the latest frame is sent to the URL with _send_image_to_url.            *)

\* lines 398-407: no frame yet answers 404; otherwise _send_image_to_url is
\* entered and reads the format
TestBegin(url) ==
    /\ pc = "idle" /\ calls < MaxCalls
    /\ IF latest_image = NoImage
       THEN /\ call' = [op |-> "test_webhook", args |-> <<url>>, val |-> "404", line |-> 403]
            /\ test' = [NoTest EXCEPT !.url = url]
            /\ UNCHANGED pc
       ELSE /\ call' = [op |-> "test_webhook", args |-> <<url>>, val |-> "pending", line |-> 0]
            /\ test' = [url |-> url, fmt |-> config.external_format, attempt |-> 0,
                         answers |-> <<>>]
            /\ pc' = "test_post"
    /\ calls' = calls + 1
    /\ stats_view' = NoView
    /\ UNCHANGED <<CAPTURE_LIBRARY, capturing, capture_thread, latest_image, last_capture_time,
                   last_error, stats, config, loops, clock, ticks, data, senders, feeder, xvars>>

\* one POST of _send_image_to_url and what follows from its answer; lines
\* 408-416: the route answers success, or 400 with the exception's text
TestPost ==
    /\ pc = "test_post"
    /\ \E resp \in Responses :
          LET r == AfterResponse(test.fmt, test.attempt, resp) IN
          /\ test' = [test EXCEPT !.answers = Append(@, resp),
                                  !.attempt = IF r.next = "retry" THEN @ + 1 ELSE @]
          /\ pc' = IF r.next = "retry" THEN "test_post" ELSE "idle"
          /\ call' = CASE r.next = "retry" -> call
                       [] r.next = "return" -> [call EXCEPT !.val = "200", !.line = 408]
                       [] OTHER -> [call EXCEPT !.val = "400", !.line = 413]
    /\ stats_view' = NoView
    /\ UNCHANGED <<CAPTURE_LIBRARY, capturing, capture_thread, latest_image, last_capture_time,
                   last_error, stats, config, loops, clock, calls, ticks, data, senders, feeder, xvars>>

---------------------------------------------------------------------------
(* The webhook settings (lines 547-580), calls of the API caller.          *)

\* `x in list`
In(x, list) == \E i \in DOMAIN list : list[i] = x

\* list.remove(x): the first occurrence is deleted
RECURSIVE ListRemove(_, _)
ListRemove(list, x) ==
    IF list = <<>> THEN <<>>
    ELSE IF Head(list) = x THEN Tail(list)
    ELSE <<Head(list)>> \o ListRemove(Tail(list), x)

\* an add_webhook_url that appends without looking
AddWebhookBlind(list, url) == [list |-> Append(list, url), val |-> "True"]

\* lines 549-555
AddWebhook(list, url) ==
    IF ~In(url, list) THEN [list |-> Append(list, url), val |-> "True"]
    ELSE [list |-> list, val |-> "False"]

\* lines 559-563
RemoveWebhook(list, url) ==
    IF In(url, list) THEN [list |-> ListRemove(list, url), val |-> "True"]
    ELSE [list |-> list, val |-> "False"]

add_webhook_url(url) ==
    /\ pc = "idle" /\ calls < MaxCalls
    /\ LET r == AddWebhook(config.webhook_urls, url) IN
          /\ config' = [config EXCEPT !.webhook_urls = r.list]
          /\ call' = [op |-> "add_webhook_url", args |-> <<url>>, val |-> r.val,
                      line |-> IF r.val = "True" THEN 554 ELSE 555]
    /\ calls' = calls + 1
    /\ stats_view' = NoView
    /\ UNCHANGED <<CAPTURE_LIBRARY, capturing, capture_thread, latest_image, last_capture_time,
                   last_error, stats, loops, pc, clock, ticks, data, dvars>>

remove_webhook_url(url) ==
    /\ pc = "idle" /\ calls < MaxCalls
    /\ LET r == RemoveWebhook(config.webhook_urls, url) IN
          /\ config' = [config EXCEPT !.webhook_urls = r.list]
          /\ call' = [op |-> "remove_webhook_url", args |-> <<url>>, val |-> r.val,
                      line |-> IF r.val = "True" THEN 562 ELSE 563]
    /\ calls' = calls + 1
    /\ stats_view' = NoView
    /\ UNCHANGED <<CAPTURE_LIBRARY, capturing, capture_thread, latest_image, last_capture_time,
                   last_error, stats, loops, pc, clock, ticks, data, dvars>>

\* lines 569-572
enable_external_sending(enabled) ==
    /\ pc = "idle" /\ calls < MaxCalls
    /\ config' = [config EXCEPT !.send_to_external = enabled]
    /\ call' = [op |-> "enable_external_sending", args |-> <<enabled>>, val |-> "None",
                line |-> 572]
    /\ calls' = calls + 1
    /\ stats_view' = NoView
    /\ UNCHANGED <<CAPTURE_LIBRARY, capturing, capture_thread, latest_image, last_capture_time,
                   last_error, stats, loops, pc, clock, ticks, data, dvars>>

\* lines 574-580
set_external_format(format_type) ==
    /\ pc = "idle" /\ calls < MaxCalls
    /\ config' = IF format_type \in {"base64", "multipart"}
                 THEN [config EXCEPT !.external_format = format_type]
                 ELSE config
    /\ call' = [op |-> "set_external_format", args |-> <<format_type>>,
                val |-> IF format_type \in {"base64", "multipart"} THEN "True" ELSE "False",
                line |-> IF format_type \in {"base64", "multipart"} THEN 579 ELSE 580]
    /\ calls' = calls + 1
    /\ stats_view' = NoView
    /\ UNCHANGED <<CAPTURE_LIBRARY, capturing, capture_thread, latest_image, last_capture_time,
                   last_error, stats, loops, pc, clock, ticks, data, dvars>>

---------------------------------------------------------------------------
(* A client that keeps the dict get_config returned (lines 61-63) and      *)
(* changes it once.                                                        *)
GetConfig ==
    /\ pc = "idle" /\ calls < MaxCalls
    /\ ~snapshot.taken
    /\ snapshot' = [taken |-> TRUE, d |-> get_config, edits |-> 0]
    /\ call' = [op |-> "get_config", args |-> <<>>, val |-> "dict", line |-> 63]
    /\ calls' = calls + 1
    /\ stats_view' = NoView
    /\ UNCHANGED <<CAPTURE_LIBRARY, capturing, capture_thread, latest_image, last_capture_time,
                   last_error, stats, config, loops, pc, clock, ticks, data,
                   senders, feeder, test, numbering, adders, hvars>>

\* the client stores a value under a key of its dict: d['quality'] = quality
SnapshotSetItem(quality) ==
    /\ pc = "idle"
    /\ snapshot.taken /\ snapshot.edits = 0
    /\ snapshot' = [snapshot EXCEPT !.d.quality = quality, !.edits = 1]
    /\ stats_view' = NoView
    /\ UNCHANGED <<CAPTURE_LIBRARY, capturing, capture_thread, latest_image, last_capture_time,
                   last_error, stats, config, loops, pc, call, clock, calls, ticks, data,
                   senders, feeder, test, numbering, adders, hvars>>

\* the client changes the list it finds in its dict:
\* d['webhook_urls'].append(url)
SnapshotAppend(url) ==
    /\ pc = "idle"
    /\ snapshot.taken /\ snapshot.edits = 0
    /\ snapshot' = [snapshot EXCEPT !.edits = 1]
    /\ config' = IF snapshot.d.webhook_urls = ListOfConfig
                 THEN [config EXCEPT !.webhook_urls = Append(@, url)]
                 ELSE config
    /\ stats_view' = NoView
    /\ UNCHANGED <<CAPTURE_LIBRARY, capturing, capture_thread, latest_image, last_capture_time,
                   last_error, stats, loops, pc, call, clock, calls, ticks, data,
                   senders, feeder, test, numbering, adders, hvars>>

---------------------------------------------------------------------------
(* add_webhook_url (lines 547-555) called from request threads of their    *)
(* own: the membership test and the append are two steps of the            *)
(* interpreter, no lock is held between them.                              *)

\* line 549
AddCheck(c, url) ==
    /\ adders[c].pc = "idle" /\ calls < MaxCalls
    /\ adders' = [adders EXCEPT ![c] =
                     IF In(url, config.webhook_urls)
                     THEN [pc |-> "idle", url |-> url, val |-> "False"]
                     ELSE [pc |-> "append", url |-> url, val |-> "pending"]]
    /\ calls' = calls + 1
    /\ stats_view' = NoView
    /\ UNCHANGED <<CAPTURE_LIBRARY, capturing, capture_thread, latest_image, last_capture_time,
                   last_error, stats, config, loops, pc, call, clock, ticks, data,
                   senders, feeder, test, numbering, snapshot, hvars>>

\* lines 552-554
AddAppend(c) ==
    /\ adders[c].pc = "append"
    /\ config' = [config EXCEPT !.webhook_urls = Append(@, adders[c].url)]
    /\ adders' = [adders EXCEPT ![c].pc = "idle", ![c].val = "True"]
    /\ stats_view' = NoView
    /\ UNCHANGED <<CAPTURE_LIBRARY, capturing, capture_thread, latest_image, last_capture_time,
                   last_error, stats, loops, pc, call, clock, calls, ticks, data,
                   senders, feeder, test, numbering, snapshot, hvars>>

---------------------------------------------------------------------------
(* The webhook settings and the test delivery: one API caller on an idle   *)
(* service; delivery is not enabled, a fed frame is only published.        *)
Urls == {"A", "B"}

NextWebhooks ==
    \/ \E url \in Urls : add_webhook_url(url)
    \/ \E url \in Urls : remove_webhook_url(url)
    \/ \E f \in {"multipart", "base64", "xml"} : set_external_format(f)
    \/ \E image \in Frames : FeedBegin(image)
    \/ FeedStamp \/ FeedLoad \/ FeedStore \/ FeedDispatch
    \/ \E url \in Urls : TestBegin(url)
    \/ TestPost

SpecWebhooks == Init /\ [][NextWebhooks]_vars

---------------------------------------------------------------------------
(* A client that keeps a configuration dict while the configuration is     *)
(* changed, and that changes its dict.                                     *)
NextSnapshot ==
    \/ GetConfig
    \/ SnapshotSetItem(1)
    \/ \E url \in Urls : SnapshotAppend(url)
    \/ \E url \in Urls : add_webhook_url(url)
    \/ \E url \in Urls : remove_webhook_url(url)
    \/ update_config("quality" :> PyIntV(50))

SpecSnapshot == Init /\ [][NextSnapshot]_vars

---------------------------------------------------------------------------
(* Request threads that add targets concurrently, and the API caller that  *)
(* removes them.                                                           *)
NextAdders ==
    \/ \E c \in Callers, url \in Urls : AddCheck(c, url)
    \/ \E c \in Callers : AddAppend(c)
    \/ \E url \in Urls : remove_webhook_url(url)

SpecAdders == Init /\ [][NextAdders]_vars

---------------------------------------------------------------------------
(* The delivery cycles: an idle service whose webhook settings were made   *)
(* before, an API caller that feeds frames and changes the target list,    *)
(* and the sender threads.                                                 *)

\* the service after enable_external_sending(True), the add_webhook_url
\* calls that built `list`, and set_external_format(fmt)
Configured(list, fmt) ==
    /\ CAPTURE_LIBRARY = "mss"
    /\ last_error = None
    /\ config = [interval |-> 10, quality |-> 85, resize_factor |-> 5,
                 add_timestamp |-> TRUE, monitor |-> 0, webhook_urls |-> list,
                 send_to_external |-> TRUE, external_format |-> fmt,
                 webhook_quality |-> 60, webhook_max_width |-> 1280,
                 webhook_max_height |-> 720]
    /\ stats_view = NoView
    /\ calls = 0
    /\ ticks = 0
    /\ data = <<>>
    /\ senders = [s \in Senders |-> NoSender]
    /\ feeder = NoFeed
    /\ test = NoTest
    /\ snapshot = NoSnapshot
    /\ adders = [c \in Callers |-> NoAdder]

InitDelivery ==
    /\ \E list \in {<<"A">>, <<"A", "B">>}, fmt \in {"base64", "multipart"} :
          Configured(list, fmt)
    /\ numbering = FALSE
    /\ NoHistory
    /\ capturing = FALSE
    /\ capture_thread = 0
    /\ latest_image = NoImage
    /\ last_capture_time = 0
    /\ stats = [total_captures |-> 0, failed_captures |-> 0, start_time |-> 0]
    /\ loops = [t \in Threads |-> NoThread]
    /\ pc = "idle"
    /\ call = [op |-> None, args |-> <<>>, val |-> None, line |-> 0]
    /\ clock = 0

NextDelivery ==
    \/ \E url \in Urls : add_webhook_url(url)
    \/ \E url \in Urls : remove_webhook_url(url)
    \/ \E enabled \in BOOLEAN : enable_external_sending(enabled)
    \/ \E image \in Frames : FeedBegin(image)
    \/ FeedStep
    \/ \E s \in Senders : SendStep(s)

SpecDelivery == InitDelivery /\ [][NextDelivery]_vars

---------------------------------------------------------------------------
(* The ladder as a function of the 'webhook_quality' entry of the          *)
(* configuration: one delivery cycle to one base64 target, dispatched by a *)
(* feed_external_image call that has returned, for every value the entry   *)
(* may hold.                                                               *)
WebhookQualities == 1 .. 100

InitLadder ==
    /\ \E q \in WebhookQualities :
          config = [interval |-> 10, quality |-> 85, resize_factor |-> 5,
                    add_timestamp |-> TRUE, monitor |-> 0, webhook_urls |-> <<"A">>,
                    send_to_external |-> TRUE, external_format |-> "base64",
                    webhook_quality |-> q, webhook_max_width |-> 1280,
                    webhook_max_height |-> 720]
    /\ NoHistory
    /\ CAPTURE_LIBRARY = "mss"
    /\ capturing = FALSE
    /\ capture_thread = 0
    /\ latest_image = process_image("external", config)
    /\ last_capture_time = 1
    /\ last_error = None
    /\ stats = [total_captures |-> 1, failed_captures |-> 0, start_time |-> 0]
    /\ loops = [t \in Threads |-> NoThread]
    /\ pc = "idle"
    /\ call = [op |-> "feed_external_image", args |-> <<"external">>, val |-> "True",
               line |-> 96]
    /\ stats_view = NoView
    /\ clock = 1
    /\ calls = 1
    /\ ticks = 0
    /\ data = <<>>
    /\ senders = [s \in Senders |->
                     IF s = 1 THEN StartedSender(process_image("external", config))
                     ELSE NoSender]
    /\ feeder = NoFeed
    /\ test = NoTest
    /\ numbering = FALSE
    /\ snapshot = NoSnapshot
    /\ adders = [c \in Callers |-> NoAdder]

NextLadder == \E s \in Senders : SendNext(s) \/ SendPost(s)

SpecLadder == InitLadder /\ [][NextLadder]_vars

---------------------------------------------------------------------------
(* A running session: the state after start_capture() has returned on the  *)
(* service above, its capture loop thread, and either a caller feeding     *)
(* frames with delivery disabled or the sender threads the ticks dispatch  *)
(* for one target.                                                         *)
Running ==
    /\ capturing = TRUE
    /\ capture_thread = 1
    /\ latest_image = NoImage
    /\ last_capture_time = 0
    /\ stats = [total_captures |-> 0, failed_captures |-> 0, start_time |-> 1]
    /\ loops = [t \in Threads |-> IF t = 1 THEN [NoThread EXCEPT !.pc = "check"] ELSE NoThread]
    /\ pc = "idle"
    /\ call = [op |-> "start_capture", args |-> <<>>, val |-> "True", line |-> 170]
    /\ clock = 1

InitFeed ==
    /\ Configured(<<>>, "base64")
    /\ numbering = TRUE
    /\ NoHistory
    /\ Running

NextFeed ==
    \/ \E image \in Frames : FeedBegin(image)
    \/ FeedStamp \/ FeedLoad \/ FeedStore \/ FeedDispatch
    \/ \E t \in Threads : LoopStep(t)

SpecFeed == InitFeed /\ [][NextFeed]_vars

InitTicks ==
    /\ Configured(<<"A">>, "base64")
    /\ numbering = TRUE
    /\ NoHistory
    /\ Running

NextTicks ==
    \/ \E t \in Threads : LoopStep(t)
    \/ \E s \in Senders : SendStep(s)

SpecTicks == InitTicks /\ [][NextTicks]_vars

\* a step the capture loop thread can take is eventually taken; a sender
\* thread may stay inside a POST for ever
FairTicks == SpecTicks /\ WF_vars(\E t \in Threads : LoopStep(t))

---------------------------------------------------------------------------
(* The dispatches of a running session: the capture loop thread and an API *)
(* caller that feeds frames, switches delivery on and off and empties or   *)
(* refills the target list.  The sender threads that are started have not  *)
(* been scheduled yet.                                                     *)
InitDispatch ==
    /\ Configured(<<"A">>, "base64")
    /\ numbering = FALSE
    /\ NoHistory
    /\ Running

NextDispatch ==
    \/ \E t \in Threads : LoopStep(t)
    \/ \E image \in Frames : FeedBegin(image)
    \/ FeedStep
    \/ \E enabled \in BOOLEAN : enable_external_sending(enabled)
    \/ add_webhook_url("A")
    \/ remove_webhook_url("A")

SpecDispatch == InitDispatch /\ [][NextDispatch]_vars

---------------------------------------------------------------------------
(* A running session whose image processor meets failing steps: the resize *)
(* raises, the drawing of the timestamp raises, both or neither, for a     *)
(* configuration that asks for either step or not.  Frames come from the   *)
(* capture loop and from a caller feeding them; nothing is delivered.      *)
ProcessorFaults == SUBSET {"resize", "timestamp"}

InitProcess ==
    /\ \E rf \in {5, 10}, at \in BOOLEAN :
          config = [interval |-> 10, quality |-> 85, resize_factor |-> rf,
                    add_timestamp |-> at, monitor |-> 0, webhook_urls |-> <<>>,
                    send_to_external |-> TRUE, external_format |-> "base64",
                    webhook_quality |-> 60, webhook_max_width |-> 1280,
                    webhook_max_height |-> 720]
    /\ CAPTURE_LIBRARY = "mss"
    /\ last_error = None
    /\ stats_view = NoView
    /\ calls = 0
    /\ ticks = 0
    /\ data = <<>>
    /\ senders = [s \in Senders |-> NoSender]
    /\ feeder = NoFeed
    /\ test = NoTest
    /\ snapshot = NoSnapshot
    /\ adders = [c \in Callers |-> NoAdder]
    /\ numbering = FALSE
    /\ stamps = NoStamps
    /\ reader = NoReader
    /\ updater = NoUpdater
    /\ faults \in ProcessorFaults
    /\ frame = NoFrame
    /\ Running

NextProcess ==
    \/ \E image \in Frames : FeedBegin(image)
    \/ FeedStamp \/ FeedLoad \/ FeedStore \/ FeedDispatch
    \/ \E t \in Threads : LoopStep(t)

SpecProcess == InitProcess /\ [][NextProcess]_vars

---------------------------------------------------------------------------
(* GET /api/image/latest (src/app.py lines 102-124), served by a request   *)
(* thread of its own: the frame is read with get_latest_image (lines       *)
(* 76-78), encoded, and the timestamp of the answer is read afterwards     *)
(* with get_last_capture_time (lines 80-82).  Neither read takes a lock.   *)

\* app.py lines 106-112: no frame yet answers 404
ReadImage ==
    /\ reader.pc = "idle"
    /\ reader' = IF latest_image = NoImage THEN [NoReader EXCEPT !.pc = "done"]
                 ELSE [pc |-> "time", img |-> latest_image, time |-> 0]
    /\ stats_view' = NoView
    /\ UNCHANGED <<CAPTURE_LIBRARY, capturing, capture_thread, latest_image, last_capture_time,
                   last_error, stats, config, loops, pc, call, clock, calls, ticks, data,
                   senders, feeder, test, numbering, snapshot, adders, stamps, updater,
                   faults, frame>>

\* app.py line 122
ReadTime ==
    /\ reader.pc = "time"
    /\ reader' = [reader EXCEPT !.pc = "done", !.time = last_capture_time]
    /\ stats_view' = NoView
    /\ UNCHANGED <<CAPTURE_LIBRARY, capturing, capture_thread, latest_image, last_capture_time,
                   last_error, stats, config, loops, pc, call, clock, calls, ticks, data,
                   senders, feeder, test, numbering, snapshot, adders, stamps, updater,
                   faults, frame>>

(* A running session that delivers in multipart format to one target,      *)
(* with a client asking for the latest image.  The history of stamps is    *)
(* kept.                                                                   *)
InitStamps ==
    /\ Configured(<<"A">>, "multipart")
    /\ numbering = TRUE
    /\ stamps = [on |-> TRUE, of |-> {}]
    /\ reader = NoReader
    /\ updater = NoUpdater
    /\ faults = {}
    /\ frame = NoFrame
    /\ Running

NextStamps ==
    \/ \E t \in Threads : LoopStep(t)
    \/ \E s \in Senders : SendStep(s)
    \/ ReadImage
    \/ ReadTime

SpecStamps == InitStamps /\ [][NextStamps]_vars

---------------------------------------------------------------------------
(* A delivery in flight across the sessions: the service after a delivery  *)
(* thread has been dispatched for the frame published last, with the       *)
(* thread not yet scheduled.                                               *)

\* the frame handed to the delivery thread
OldFrame == [src |-> "screen", resize_factor |-> 5, add_timestamp |-> TRUE, n |-> 0]

InFlight(list, enabled) ==
    /\ CAPTURE_LIBRARY = "mss"
    /\ last_error = None
    /\ config = [interval |-> 10, quality |-> 85, resize_factor |-> 5,
                 add_timestamp |-> TRUE, monitor |-> 0, webhook_urls |-> list,
                 send_to_external |-> enabled, external_format |-> "base64",
                 webhook_quality |-> 60, webhook_max_width |-> 1280,
                 webhook_max_height |-> 720]
    /\ stats_view = NoView
    /\ calls = 0
    /\ ticks = 0
    /\ data = <<>>
    /\ senders = [s \in Senders |-> IF s = 1 THEN StartedSender(OldFrame) ELSE NoSender]
    /\ feeder = NoFeed
    /\ test = NoTest
    /\ snapshot = NoSnapshot
    /\ adders = [c \in Callers |-> NoAdder]
    /\ NoHistory
    /\ latest_image = OldFrame
    /\ last_capture_time = 1
    /\ clock = 1
    /\ pc = "idle"

\* the session that dispatched the thread has been stopped and its loop
\* thread has ended; the API caller starts the next session
InitSessions ==
    /\ InFlight(<<"A">>, TRUE)
    /\ numbering = TRUE
    /\ capturing = FALSE
    /\ capture_thread = 0
    /\ stats = [total_captures |-> 1, failed_captures |-> 0, start_time |-> 1]
    /\ loops = [t \in Threads |-> NoThread]
    /\ call = [op |-> "stop_capture", args |-> <<>>, val |-> "None", line |-> 190]

NextSessions ==
    \/ StartRunning
    \/ StartBegin(PyNone, PyNone)
    \/ StartTime \/ ResetTotal \/ ResetFailed \/ ClearError
    \/ Launch
    \/ \E t \in Threads : LoopStep(t)
    \/ \E s \in Senders : SendStep(s)

SpecSessions == InitSessions /\ [][NextSessions]_vars

\* the API caller stops capture, on a service that is running (the session
\* that dispatched the thread) or idle (the thread was dispatched for a
\* frame fed to an idle service); delivery has been switched off since the
\* dispatch, so the thread stays the only one
InitStops ==
    /\ InFlight(<<"A", "B">>, FALSE)
    /\ numbering = FALSE
    /\ \/ /\ capturing = TRUE
          /\ capture_thread = 1
          /\ loops = [t \in Threads |->
                         IF t = 1 THEN [NoThread EXCEPT !.pc = "sleep"] ELSE NoThread]
          /\ call = [op |-> "start_capture", args |-> <<>>, val |-> "True", line |-> 170]
       \/ /\ capturing = FALSE
          /\ capture_thread = 0
          /\ loops = [t \in Threads |-> NoThread]
          /\ call = [op |-> "feed_external_image", args |-> <<"external">>, val |-> "True",
                     line |-> 96]
    /\ stats = [total_captures |-> 1, failed_captures |-> 0, start_time |-> 1]

NextStops ==
    \/ StopIdle \/ StopBegin \/ JoinReturns \/ JoinTimesOut
    \/ \E t \in Threads : LoopStep(t)
    \/ \E s \in Senders : SendStep(s)

SpecStops == InitStops /\ [][NextStops]_vars

\* requests.post is called with timeout=10 (lines 485 and 536): a sender
\* thread that can take a step takes it
FairStops == SpecStops /\ \A s \in Senders : WF_vars(SendStep(s))

---------------------------------------------------------------------------
(* _optimize_image_for_webhook (lines 389-407), the shrink a dispatch      *)
(* applies to its frame at line 419, before the delivery thread exists.    *)
(* A factor is the quotient num / den of two positive integers.            *)

\* lines 395-396: max / side if side > max else 1.0
Factor(side, max) == IF side > max THEN [num |-> max, den |-> side]
                                   ELSE [num |-> 1, den |-> 1]

\* line 397: min(width_factor, height_factor)
MinFactor(f, g) == IF f.num * g.den <= g.num * f.den THEN f ELSE g

\* lines 401-402: int(side * resize_factor)
Scaled(side, f) == (side * f.num) \div f.den

\* the size of the frame returned for a frame of the given size; Image.resize
\* raises ValueError for a size with a side of zero
optimize_image_for_webhook(width, height, cfg) ==
    LET resize_factor == MinFactor(Factor(width, cfg.webhook_max_width),
                                   Factor(height, cfg.webhook_max_height))
        new_width == Scaled(width, resize_factor)
        new_height == Scaled(height, resize_factor)
    IN  IF resize_factor.num < resize_factor.den
        THEN IF new_width < 1 \/ new_height < 1
             THEN [raised |-> TRUE, width |-> 0, height |-> 0]
             ELSE [raised |-> FALSE, width |-> new_width, height |-> new_height]
        ELSE [raised |-> FALSE, width |-> width, height |-> height]

\* line 419
OptimizeImage ==
    /\ frame.pc = "call"
    /\ LET r == optimize_image_for_webhook(frame.width, frame.height, config) IN
          frame' = [frame EXCEPT !.pc = "done", !.raised = r.raised,
                                 !.out_width = r.width, !.out_height = r.height]
    /\ stats_view' = NoView
    /\ UNCHANGED <<CAPTURE_LIBRARY, capturing, capture_thread, latest_image, last_capture_time,
                   last_error, stats, config, loops, pc, call, clock, calls, ticks, data,
                   senders, feeder, test, numbering, snapshot, adders, stamps, reader,
                   updater, faults>>

\* the sizes of the frames, in pixels: one-pixel strips, screens, sizes at
\* and next to the maxima
FrameWidths == {1, 2, 640, 1279, 1280, 1281, 1920, 2560, 3000, 3840}
FrameHeights == {1, 2, 360, 719, 720, 721, 1080, 1440, 2160}
FrameSizes == FrameWidths \X FrameHeights

\* the configured maxima: lines 47-48 set them and no call changes them
Maxima == {<<1280, 720>>}

InitShrink ==
    /\ \E m \in Maxima :
          config = [interval |-> 10, quality |-> 85, resize_factor |-> 5,
                    add_timestamp |-> TRUE, monitor |-> 0, webhook_urls |-> <<"A">>,
                    send_to_external |-> TRUE, external_format |-> "base64",
                    webhook_quality |-> 60, webhook_max_width |-> m[1],
                    webhook_max_height |-> m[2]]
    /\ \E size \in FrameSizes :
          frame = [NoFrame EXCEPT !.pc = "call", !.width = size[1], !.height = size[2]]
    /\ CAPTURE_LIBRARY = "mss"
    /\ last_error = None
    /\ stats_view = NoView
    /\ calls = 0
    /\ ticks = 0
    /\ data = <<>>
    /\ senders = [s \in Senders |-> NoSender]
    /\ feeder = NoFeed
    /\ test = NoTest
    /\ snapshot = NoSnapshot
    /\ adders = [c \in Callers |-> NoAdder]
    /\ numbering = FALSE
    /\ stamps = NoStamps
    /\ reader = NoReader
    /\ updater = NoUpdater
    /\ faults = {}
    /\ Running

NextShrink == OptimizeImage

SpecShrink == InitShrink /\ [][NextShrink]_vars

---------------------------------------------------------------------------
(* update_config (lines 103-140) as the request thread that runs it        *)
(* executes it: one `if '<field>' in new_config:` block per step, each     *)
(* storing its field as soon as the field has passed its check.  No lock   *)
(* is taken, so the steps of other threads come between the blocks.        *)

\* the call is entered
UpdateBegin(new_config) ==
    /\ updater.i = 0
    /\ calls < MaxCalls
    /\ updater' = [i |-> 1, new_config |-> new_config, before |-> config]
    /\ calls' = calls + 1
    /\ stats_view' = NoView
    /\ UNCHANGED <<CAPTURE_LIBRARY, capturing, capture_thread, latest_image, last_capture_time,
                   last_error, stats, config, loops, pc, call, clock, ticks, data,
                   senders, feeder, test, numbering, snapshot, adders, stamps, reader,
                   faults, frame>>

\* the block of field number updater.i; a field that fails its check ends
\* the call in the handler (lines 137-140)
UpdateField ==
    /\ updater.i \in DOMAIN ConfigFields
    /\ LET f == ConfigFields[updater.i]
           r == IF f \in DOMAIN updater.new_config
                THEN ApplyField(config, f, updater.new_config[f])
                ELSE [cfg |-> config, ok |-> TRUE]
       IN  /\ config' = r.cfg
           /\ last_error' = IF r.ok THEN last_error ELSE FieldError(f)
           /\ updater' = IF r.ok THEN [updater EXCEPT !.i = @ + 1] ELSE NoUpdater
    /\ stats_view' = NoView
    /\ UNCHANGED <<CAPTURE_LIBRARY, capturing, capture_thread, latest_image, last_capture_time,
                   stats, loops, pc, call, clock, calls, ticks, data,
                   senders, feeder, test, numbering, snapshot, adders, stamps, reader,
                   faults, frame>>

\* line 135: return True
UpdateReturn ==
    /\ updater.i = Len(ConfigFields) + 1
    /\ updater' = NoUpdater
    /\ stats_view' = NoView
    /\ UNCHANGED <<CAPTURE_LIBRARY, capturing, capture_thread, latest_image, last_capture_time,
                   last_error, stats, config, loops, pc, call, clock, calls, ticks, data,
                   senders, feeder, test, numbering, snapshot, adders, stamps, reader,
                   faults, frame>>

\* the updates a settings form sends: several fields at once, every value
\* acceptable
FormInputs ==
    {("interval" :> PyIntV(7)) @@ ("quality" :> PyIntV(50)),
     ("quality" :> PyIntV(50)) @@ ("resize_factor" :> PyFloatV(10)) @@ ("monitor" :> PyIntV(1)),
     ("interval" :> PyIntV(7)) @@ ("add_timestamp" :> PyBoolV(FALSE))}

\* a client reads the configuration while another request updates it
NextForm ==
    \/ \E nc \in FormInputs : UpdateBegin(nc)
    \/ UpdateField
    \/ UpdateReturn
    \/ GetConfig

SpecForm == Init /\ [][NextForm]_vars

---------------------------------------------------------------------------
\* the updates tried while sessions run: a valid interval longer than the
\* join timeout, a NaN interval, a valid field before an invalid one
SessionInputs ==
    {"interval" :> PyIntV(7), "interval" :> PyNaN,
     ("interval" :> PyIntV(7)) @@ ("quality" :> PyIntV(0))}

\* the overrides start_capture is tried with while sessions run
SessionStarts ==
    {<<PyNone, PyNone>>, <<PyIntV(7), PyIntV(50)>>, <<PyIntV(0 - 1), PyNone>>, <<PyNone, PyText>>}

\* the whole service: the API caller, the capture loop threads, a status query
Next ==
    \/ \E nc \in SessionInputs : update_config(nc)
    \/ StartNoLibrary
    \/ StartRunning
    \/ \E a \in SessionStarts : StartBegin(a[1], a[2])
    \/ StartTime \/ ResetTotal \/ ResetFailed \/ ClearError
    \/ Launch \/ LaunchFails
    \/ StopIdle \/ StopBegin \/ JoinReturns \/ JoinTimesOut
    \/ \E t \in Threads : LoopStep(t)
    \/ GetStats

Spec == Init /\ [][Next]_vars

---------------------------------------------------------------------------
(* The configuration surface: the calls that write the configuration, with *)
(* every partial update and every override; the partial update is drawn    *)
(* once per behaviour.  The launched threads are not scheduled here, they  *)
(* never write the configuration.                                          *)
InitConfig ==
    /\ CAPTURE_LIBRARY \in {"mss", None}
    /\ capturing = FALSE
    /\ capture_thread = 0
    /\ latest_image = NoImage
    /\ last_capture_time = 0
    /\ last_error = None
    /\ stats = [total_captures |-> 0, failed_captures |-> 0, start_time |-> 0]
    /\ config = [interval |-> 10, quality |-> 85, resize_factor |-> 5,
                 add_timestamp |-> TRUE, monitor |-> 0, webhook_urls |-> <<>>,
                 send_to_external |-> FALSE, external_format |-> "base64",
                 webhook_quality |-> 60, webhook_max_width |-> 1280,
                 webhook_max_height |-> 720]
    /\ loops = [t \in Threads |-> NoThread]
    /\ pc = "idle"
    /\ call = [op |-> None, args |-> <<>>, val |-> None, line |-> 0]
    /\ stats_view = NoView
    /\ clock = 0
    /\ calls = 0
    /\ ticks = 0
    /\ data \in ConfigInputs
    /\ senders = [s \in Senders |-> NoSender]
    /\ feeder = NoFeed
    /\ test = NoTest
    /\ numbering = FALSE
    /\ NoHistory
    /\ snapshot = NoSnapshot
    /\ adders = [c \in Callers |-> NoAdder]

NextConfig ==
    \/ update_config(data)
    \/ StartNoLibrary
    \/ StartRunning
    \/ \E a \in SessionStarts : StartBegin(a[1], a[2])
    \/ StartTime \/ ResetTotal \/ ResetFailed \/ ClearError
    \/ Launch \/ LaunchFails
    \/ StopIdle \/ StopBegin \/ JoinTimesOut

SpecConfig == InitConfig /\ [][NextConfig]_vars

---------------------------------------------------------------------------
(* What the specification calls a valid value of a field: the right type   *)
(* and in range.                                                           *)
Tenths(x) == IF x.t = "float" THEN x.v ELSE x.v * 10

ValidValue(f, x) ==
    CASE f \in {"interval", "resize_factor"} -> x.t \in {"int", "float"} /\ FloatLT(0, Tenths(x))
      [] f \in {"quality", "webhook_quality"} -> x.t = "int" /\ 1 <= x.v /\ x.v <= 100
      [] f = "add_timestamp" -> x.t = "bool"
      [] OTHER -> x.t = "int" /\ x.v >= 0

ValidUpdate(nc) == \A f \in DOMAIN nc : ValidValue(f, nc[f])

\* field f of cfg holds the supplied value x
Holds(cfg, f, x) ==
    CASE f \in {"interval", "resize_factor"} -> cfg[f] = Tenths(x)
      [] f = "add_timestamp" -> cfg[f] = (x.v = 1)
      [] OTHER -> cfg[f] * 10 = Tenths(x)

\* the step in which update_config is called and returns
UpdateStep == calls' = calls + 1 /\ call'.op = "update_config"

\* C1: an update with at least one invalid field returns failure and leaves
\* the configuration exactly as it was before the call
C1_RejectedUpdateChangesNothing ==
    [][(UpdateStep /\ ~ValidUpdate(data)) => (call'.val = "False" /\ config' = config)]_vars

UpdatableFields == {ConfigFields[i] : i \in DOMAIN ConfigFields}

C3_NumericFieldsValid ==
    /\ FloatLT(0, config.interval)
    /\ 1 <= config.quality /\ config.quality <= 100
    /\ FloatLT(0, config.resize_factor)
    /\ config.monitor >= 0

---------------------------------------------------------------------------
(* The capture session.                                                    *)

\* the step in which start_capture is called
StartCallStep == calls' = calls + 1 /\ call'.op = "start_capture"

\* the step in which stop_capture is called
StopCallStep == calls' = calls + 1 /\ call'.op = "stop_capture"

\* the step in which a start_capture called while idle returns success
StartReturnStep == pc = "launch" /\ pc' = "idle" /\ call'.val = "True"

\* C4: start_capture called while running returns success and leaves the
\* capture counters and the start time as they were
C4_StartWhileRunningKeepsStats ==
    [][(StartCallStep /\ capturing) => (call'.val = "True" /\ stats' = stats)]_vars

\* a second start_capture has returned through the already-running branch
\* with the captures counted so far still in the statistics
C4_Witness ==
    /\ call.op = "start_capture" /\ call.line = 150
    /\ capturing
    /\ stats.total_captures >= 1 /\ stats.start_time >= 1

\* the overrides a start_capture was called with are in the configuration
OverridesStored(args, cfg) ==
    /\ args[1] # PyNone => cfg.interval = Tenths(args[1])
    /\ args[2] # PyNone => cfg.quality * 10 = Tenths(args[2])

\* C5: when start_capture called while idle returns success, the flag is
\* set, both counters are zero, the last error is cleared, the overrides are
\* in the configuration and the loop thread has been launched
C5_StartFromIdleResets ==
    [][StartReturnStep =>
          /\ capturing'
          /\ stats'.total_captures = 0 /\ stats'.failed_captures = 0
          /\ last_error' = None
          /\ OverridesStored(call.args, config')
          /\ capture_thread' # 0 /\ loops'[capture_thread'].pc = "check"]_vars

\* C6: stop_capture called while idle returns and changes nothing
C6_StopWhileIdleChangesNothing ==
    [][(StopCallStep /\ ~capturing) =>
          /\ call'.val = "None" /\ pc' = "idle"
          /\ UNCHANGED <<stats, config, last_error, latest_image, last_capture_time,
                         capturing, capture_thread, loops>>]_vars

\* stop_capture has returned through the not-running branch after a session
\* that counted captures
C6_Witness ==
    /\ call.op = "stop_capture" /\ call.line = 182
    /\ ~capturing
    /\ stats.total_captures >= 1

\* the threads that are inside a tick of the capture loop
Ticking == {t \in Threads : loops[t].pc \in TickPcs}

\* C7: at most one capture loop thread is alive and executing ticks
C7_SingleLoop == Cardinality(Ticking) <= 1

\* C9: outside start_capture's reset neither counter decreases, a counter
\* that is zero changes only by a tick's increment, and both are zero when
\* the start_capture that begins a session returns
C9_CountersMonotone ==
    [][/\ (~ResetTotal /\ ~ResetFailed) =>
             /\ stats'.total_captures >= stats.total_captures
             /\ stats'.failed_captures >= stats.failed_captures
             /\ stats.total_captures = 0 => stats'.total_captures <= 1
             /\ stats.failed_captures = 0 => stats'.failed_captures <= 1
       /\ StartReturnStep => (stats'.total_captures = 0 /\ stats'.failed_captures = 0)]_vars

\* a view copied between start_capture's writes that is neither the
\* statistics before the reset nor the statistics after it: the new start
\* time next to a counter of the session before
Torn(v) ==
    \/ v.during = "reset_total" /\ (v.total_captures # 0 \/ v.failed_captures # 0)
    \/ v.during = "reset_failed" /\ v.failed_captures # 0

\* C10: get_stats never returns a torn view of the statistics
C10_NoTornStats == ~Torn(stats_view)

---------------------------------------------------------------------------
(* Every thread that can take a step eventually does: the frame grab       *)
(* returns, the sleep ends, the scheduler runs the thread.                 *)
\* The status queries are left out: they write nothing a thread reads.
NextThreads ==
    \/ \E nc \in SessionInputs : update_config(nc)
    \/ StartNoLibrary
    \/ StartRunning
    \/ \E a \in SessionStarts : StartBegin(a[1], a[2])
    \/ StartTime \/ ResetTotal \/ ResetFailed \/ ClearError
    \/ Launch \/ LaunchFails
    \/ StopIdle \/ StopBegin \/ JoinReturns \/ JoinTimesOut
    \/ \E t \in Threads : LoopStep(t)

FairSpec == Init /\ [][NextThreads]_vars /\ \A t \in Threads : WF_vars(LoopStep(t))

\* C8: once the flag is cleared and unless a later start_capture sets it
\* again, every capture loop thread ends; a thread never ends inside a tick,
\* only at the flag test (or in the sleep that raises); once no loop thread
\* is left and until one is launched, no frame is published and no counter
\* rises
C8_StopEndsLoop ==
    /\ ~capturing ~> (capturing \/ AliveLoops = {})
    /\ [][\A t \in Threads :
             loops[t].pc \in (TickPcs \ {"sleep"}) => loops'[t].pc # "dead"]_vars
    /\ [][(AliveLoops = {} /\ AliveLoops' = {}) =>
             /\ UNCHANGED <<latest_image, last_capture_time>>
             /\ stats'.total_captures <= stats.total_captures
             /\ stats'.failed_captures <= stats.failed_captures]_vars

\* stop_capture has returned on a running service, the loop has ended and
\* the ticks it finished are counted
C8_Witness ==
    /\ call.op = "stop_capture" /\ call.line = 190
    /\ ~capturing
    /\ capture_thread # 0 /\ AliveLoops = {}
    /\ stats.total_captures >= 1

---------------------------------------------------------------------------
(* feed_external_image.                                                    *)

\* the steps of a feed_external_image call: the publish, the count, the
\* return of True
FeedPublishStep == calls' = calls + 1 /\ call'.op = "feed_external_image"
FeedCountStep == pc = "feed_store" /\ pc' = "feed_dispatch"
FeedReturnStep == pc = "feed_dispatch" /\ pc' = "idle" /\ call'.val = "True"

---------------------------------------------------------------------------
(* The delivery cycles.                                                    *)

\* thread s makes a POST in this step
PostStep(s) == senders[s].pc = "post" /\ senders'[s] # senders[s]

\* the answer to the POST just made
Answer(s) == senders'[s].answers[Len(senders'[s].answers)]

\* every answer of a is payload-too-large
AllTooLarge(a) == \A k \in DOMAIN a : a[k] = "413"

\* what send_async records for a target whose delivery raised
SendFailed(url, err) == "Webhook send failed to " \o url \o ": " \o err

\* C12: a delivery to a target that is answered payload-too-large on attempt
\* 1 goes on to attempt 2, answered payload-too-large again it goes on to
\* attempt 3, and answered success there it ends after exactly 3 delivery
\* calls as a success for that target, with no error recorded
C12_LadderSucceedsOnThird ==
    [][\A s \in Senders : PostStep(s) =>
          /\ senders'[s].answers \in {<<"413">>, <<"413", "413">>} => senders'[s].pc = "post"
          /\ senders'[s].answers = <<"413", "413", "200">> =>
                /\ senders'[s].pc = "next" /\ senders'[s].result = "sent"
                /\ last_error' = last_error]_vars

\* C13: a delivery to a target that is answered payload-too-large every time
\* makes exactly 3 delivery calls, then the target is failed with the error
\* of the exhausted ladder recorded, and the thread goes on to the other
\* targets of the list
C13_LadderExhausted ==
    [][\A s \in Senders : (PostStep(s) /\ AllTooLarge(senders'[s].answers)) =>
          IF Len(senders'[s].answers) < 3 THEN senders'[s].pc = "post"
          ELSE /\ Len(senders'[s].answers) = 3
               /\ senders'[s].pc = "next" /\ senders'[s].result = "failed"
               /\ last_error' = SendFailed(senders[s].url,
                                  "Failed to send image after 3 attempts with different sizes")]_vars

CycleEnds(s) == senders[s].pc = "next" /\ senders'[s].pc = "dead"

\* C17: a delivery that fails does not end the cycle, and when the cycle
\* ends every target of the configured list has received an attempt
C17_EveryTargetAttempted ==
    [][\A s \in Senders :
          /\ (PostStep(s) /\ senders'[s].result = "failed") => senders'[s].pc = "next"
          /\ CycleEnds(s) =>
                \A k \in DOMAIN config.webhook_urls :
                   In(config.webhook_urls[k], senders[s].log)]_vars

---------------------------------------------------------------------------
(* The test delivery and the target list.                                  *)

\* the request thread of test_webhook makes a POST in this step
TestPostStep == pc = "test_post" /\ test' # test

\* C15: a test delivery makes exactly one delivery call whatever the answer:
\* its POST is its last, and an answer other than success is returned to the
\* caller as the error
C15_TestDeliverySingleCall ==
    [][TestPostStep =>
          /\ Len(test'.answers) = 1
          /\ pc' = "idle"
          /\ call'.val = IF test'.answers[1] = "200" THEN "200" ELSE "400"]_vars

\* the steps in which add_webhook_url and remove_webhook_url are called
AddCallStep == calls' = calls + 1 /\ call'.op = "add_webhook_url"
RemoveCallStep == calls' = calls + 1 /\ call'.op = "remove_webhook_url"

\* no URL is twice in the list
NoDuplicate(list) == \A i, j \in DOMAIN list : list[i] = list[j] => i = j

\* the list without x, the others in their order
Without(list, x) == SelectSeq(list, LAMBDA y : y # x)

\* C16: adding a URL that is in the list returns False and leaves the list
\* as it was, adding a new one appends it; removing a URL that is not in the
\* list returns False and leaves the list as it was, removing one that is
\* takes it out and keeps the others in their order; no URL is ever twice in
\* the list
C16_TargetListIsOrderedSet ==
    [][/\ AddCallStep =>
             LET url == call'.args[1] IN
             IF In(url, config.webhook_urls)
             THEN call'.val = "False" /\ config' = config
             ELSE /\ call'.val = "True"
                  /\ config' = [config EXCEPT !.webhook_urls = Append(@, url)]
       /\ RemoveCallStep =>
             LET url == call'.args[1] IN
             IF In(url, config.webhook_urls)
             THEN /\ call'.val = "True"
                  /\ config' = [config EXCEPT !.webhook_urls = Without(@, url)]
             ELSE call'.val = "False" /\ config' = config
       /\ NoDuplicate(config'.webhook_urls)]_vars

\* a URL was added, then a second one, then the first one again: the third
\* call returned False and the list holds the two in the order they came
C16_Witness ==
    /\ call.op = "add_webhook_url" /\ call.args = <<"B">> /\ call.val = "False"
    /\ config.webhook_urls = <<"B", "A">>
    /\ calls = 3

---------------------------------------------------------------------------
(* The capture loop beside the deliveries it has dispatched.               *)

\* C18: whatever the sender threads do, and if they never end: a tick of
\* the capture loop that dispatches a delivery reaches its sleep; a loop
\* thread inside a tick reaches the flag test of its next tick (or ends in
\* its sleep); at the flag test it begins the next tick and acquires,
\* publishes or handles the failure of a frame, unless the flag was cleared
C18_DeliveryNeverBlocksLoop ==
    /\ (loops[capture_thread].pc = "dispatch" /\ Delivers) ~> (loops[capture_thread].pc = "sleep")
    /\ (loops[capture_thread].pc \in TickPcs) ~> (loops[capture_thread].pc \in {"check", "dead"})
    /\ (loops[capture_thread].pc = "check" /\ ticks < MaxTicks) ~>
          (loops[capture_thread].pc \in {"publish", "except", "dead"})

\* the second tick has published its frame while the delivery the first
\* tick dispatched is still inside its first POST
C18_Witness ==
    /\ ticks = 2 /\ stats.total_captures = 1
    /\ loops[1].pc = "stamp"
    /\ \E s \in Senders : senders[s].pc = "post" /\ senders[s].answers = <<>> /\ senders[s].log = <<>>

---------------------------------------------------------------------------
(* Failures inside a tick.                                                 *)

\* thread t takes the step from statement l to statement m
LoopGoes(t, l, m) == loops[t].pc = l /\ loops'[t].pc = m

\* C19: an exception raised in a tick is caught within the tick: the handler
\* stores it as the last error and makes the failed capture count one
\* greater, neither step ends the thread or touches the flag, and the sleep
\* that follows ends with the loop at the flag test of its next tick
C19_TickExceptionHandled ==
    [][\A t \in Threads :
          /\ (loops[t].pc \in {"except", "fstore"} /\ loops'[t] # loops[t]) =>
                loops'[t].pc # "dead" /\ capturing' = capturing
          /\ LoopGoes(t, "except", "fstore") => last_error' = "capture error"
          /\ LoopGoes(t, "fstore", "sleep") =>
                /\ stats'.failed_captures = stats.failed_captures + 1
                /\ stats'.total_captures = stats.total_captures
          /\ (loops[t].pc = "sleep" /\ last_error = "capture error"
                /\ loops'[t].pc # "sleep") => loops'[t].pc = "check"]_vars

\* C20: a tick whose frame source failed goes on with the placeholder frame,
\* processed and published, and when the tick ends the failed capture count
\* has been incremented
C20_PlaceholderCountsFailure ==
    [][\A t \in Threads :
          /\ (loops[t].pc = "publish" /\ loops[t].img.src = "test_image"
                /\ loops'[t].pc # "publish") =>
                latest_image' = loops[t].img
          /\ (loops[t].pc = "dispatch" /\ loops[t].img.src = "test_image"
                /\ loops'[t].pc # "dispatch") =>
                stats'.failed_captures >= 1]_vars

---------------------------------------------------------------------------
(* The configuration dict a client holds.                                  *)

\* the client changes its dict in this step
SnapshotEditStep == snapshot.taken /\ snapshot'.edits = snapshot.edits + 1

\* C21: the dict get_config returned is a snapshot: a later call of the
\* service that changes the configuration leaves what the client reads in
\* its dict (the target list included) as it was, and a change the client
\* makes to its dict leaves the configuration of the service as it was
C21_SnapshotIsImmutable ==
    [][/\ (snapshot.taken /\ snapshot' = snapshot) => SnapshotContents' = SnapshotContents
       /\ SnapshotEditStep => config' = config]_vars

---------------------------------------------------------------------------
(* Concurrent add_webhook_url calls.                                       *)

\* request thread c appends its URL in this step and returns True
AppendStep(c) == adders[c].pc = "append" /\ adders'[c].pc = "idle"

\* C30: the target list never holds a URL twice, also with concurrent
\* add_webhook_url calls: a call that returns True has made the only entry
\* of its URL
C30_ConcurrentAddKeepsUnique ==
    [][\A c \in Callers : AppendStep(c) =>
          /\ ~In(adders[c].url, config.webhook_urls)
          /\ NoDuplicate(config'.webhook_urls)]_vars

---------------------------------------------------------------------------
(* The rungs of the ladder.                                                *)

C23_TooLargeGoesToNextRung ==
    [][\A s \in Senders :
          (PostStep(s) /\ Answer(s) = "413" /\ Len(senders'[s].answers) < 3) =>
             /\ senders'[s].pc = "post"
             /\ senders'[s].attempt = senders[s].attempt + 1
             /\ senders'[s].result # "failed"]_vars

\* C24: within a delivery cycle no POST is made to a target after the third
\* of a delivery to it, nor after a POST to it has succeeded
C24_BoundedCallsPerTarget ==
    [][\A s \in Senders : PostStep(s) =>
          /\ Len(senders'[s].sent) <= 3
          /\ senders[s].url \notin senders[s].delivered]_vars

---------------------------------------------------------------------------
(* The flag and the loop.                                                  *)

\* C25: whenever no start_capture or stop_capture call is in progress, the
\* capturing flag is true exactly if a capture loop thread is alive
C25_FlagIffLoopAlive == pc = "idle" => (capturing <=> AliveLoops # {})

---------------------------------------------------------------------------
(* The dispatch of a delivery.                                             *)

\* the tick of thread t, or the feed_external_image call, passes its
\* dispatch statement in this step
LoopDispatchStep(t) == loops[t].pc = "dispatch" /\ loops'[t].pc # "dispatch"
FeedDispatchStep == pc = "feed_dispatch" /\ pc' # "feed_dispatch"

\* a sender thread is started in this step
Started == \E s \in Senders : senders[s].pc \in {"new", "dead"} /\ senders'[s].pc = "next"

---------------------------------------------------------------------------
(* The order of the published frames.                                      *)

\* C27: a tick publishes the frame it has acquired and processed before it
\* dispatches it, and the latest frame is never replaced by a frame that was
\* acquired before it
C27_PublishesInAcquisitionOrder ==
    [][/\ latest_image' # latest_image => latest_image'.n >= latest_image.n
       /\ \A t \in Threads :
             /\ LoopGoes(t, "publish", "stamp") =>
                   latest_image' = loops[t].img /\ loops[t].img.src # "none"
             /\ LoopDispatchStep(t) => latest_image.n >= loops[t].img.n]_vars

\* the payload of the POST just made
Posted(s) == senders'[s].sent[Len(senders'[s].sent)]

\* C28: the sender thread a tick starts is given the frame that tick has
\* published, it keeps that frame for the whole cycle, and every POST it
\* makes is encoded from that frame, whatever has been published since
C28_DeliverySendsItsOwnFrame ==
    [][/\ \A t \in Threads, s \in Senders :
             (LoopDispatchStep(t) /\ senders[s].pc \in {"new", "dead"}
                 /\ senders'[s].pc = "next") =>
                senders'[s].img = loops[t].img /\ loops[t].img.n = ticks
       /\ \A s \in Senders :
             /\ (senders[s].pc \in {"next", "post"} /\ senders'[s].pc \in {"next", "post"}) =>
                   senders'[s].img = senders[s].img
             /\ PostStep(s) => Posted(s).img = senders[s].img]_vars

\* the second attempt of the delivery of tick 1 has been made after tick 2
\* has published its frame
C28_Witness ==
    \E s \in Senders :
       /\ senders[s].pc = "post" /\ Len(senders[s].sent) = 2
       /\ senders[s].img.n = 1 /\ senders[s].sent[2].img.n = 1
       /\ latest_image.n = 2

---------------------------------------------------------------------------
(* The fan-out and the target list.                                        *)

\* the targets a list iterator at position i of the list has yet to yield
Remaining(list, i) == {list[k] : k \in (i + 1) .. Len(list)}

\* C29: while a delivery cycle is under way, adding or removing a target
\* changes the targets the cycle has yet to attempt by that target at most:
\* every other target stays to be attempted if it was, and does not come up
\* for an attempt again if it was not
C29_FanOutIteratesConsistentSet ==
    [][\A s \in Senders :
          (senders[s].pc \in {"next", "post"} /\ config'.webhook_urls # config.webhook_urls) =>
             \A v \in Urls \ {call'.args[1]} :
                v \in Remaining(config.webhook_urls, senders[s].i)
                   <=> v \in Remaining(config'.webhook_urls, senders'[s].i)]_vars

---------------------------------------------------------------------------
\* C35: a capture loop thread ends only at a flag test that reads the flag
\* as false: no other step of the loop, the sleep on the configured
\* interval included, ends the thread
C35_LoopEndsOnlyWithClearedFlag ==
    [][\A t \in Threads :
          (is_alive(t) /\ loops'[t].pc = "dead")
             => (loops[t].pc = "check" /\ ~capturing)]_vars

\* C36: a tick increments exactly one of the two counters: in a session of
\* one capture loop the captures counted and the failures counted together
\* never exceed the ticks begun
C36_OneCounterPerTick ==
    stats.total_captures + stats.failed_captures <= ticks

\* C37: no increment of the total capture count is lost: the store that
\* ends the `+= 1` of a tick or of a feed leaves the count one greater than
\* it was before the store
C37_NoLostIncrement ==
    [][((\E t \in Threads : LoopGoes(t, "store", "dispatch")) \/ FeedCountStep)
          => stats'.total_captures = stats.total_captures + 1]_vars

---------------------------------------------------------------------------
\* the frame a processor returns for an acquired frame src when each step
\* that does not fail is applied and each step that fails is skipped
BestFrame(src, cfg) ==
    [src |-> src,
     resize_factor |-> IF "resize" \in faults THEN 10 ELSE cfg.resize_factor,
     add_timestamp |-> cfg.add_timestamp /\ "timestamp" \notin faults]

SameFrame(img, best) ==
    /\ img.src = best.src
    /\ img.resize_factor = best.resize_factor
    /\ img.add_timestamp = best.add_timestamp

\* C34: the image processor never propagates an error: a tick whose frame
\* was acquired, and a feed, go on to publish the frame the processor
\* returns, which is the acquired frame with every step that did not fail
\* applied and the failed step skipped, and then count a successful capture
C34_ProcessorDegradesGracefully ==
    [][/\ \A t \in Threads :
             /\ LoopGoes(t, "acquire", "publish")
                   => \E src \in {"screen", "test_image"} :
                         SameFrame(loops'[t].img, BestFrame(src, config))
             /\ loops[t].pc = "publish" /\ loops'[t] # loops[t]
                   => loops'[t].pc = "stamp" /\ latest_image' = loops[t].img
             /\ LoopGoes(t, "store", "dispatch")
                   => stats'.total_captures = loops[t].tmp + 1
       /\ FeedPublishStep
             => /\ SameFrame(latest_image', BestFrame(call'.args[1], config))
                /\ pc' = "feed_stamp"]_vars

---------------------------------------------------------------------------
\* the frames other than img that time was written for as their capture time
OthersStampedAt(img, time) == {p \in stamps.of : p[2] = time /\ p[1] # img}

ReadTimeStep == reader.pc = "time" /\ reader'.pc = "done"

\* C39: the latest frame and the last capture timestamp are read as one
\* consistent pair: the timestamp a reader gets with get_last_capture_time
\* after it got a frame with get_latest_image is never the capture time
\* written for a different frame
C39_FrameAndTimestampPair ==
    [][ReadTimeStep => OthersStampedAt(reader.img, reader'.time) = {}]_vars

\* C40: in multipart format the timestamp field posted with a frame is the
\* capture time written for that frame, never the capture time of a later
\* tick
C40_MultipartTimestampOfItsFrame ==
    [][\A s \in Senders :
          (PostStep(s) /\ senders[s].fmt = "multipart")
             => <<senders[s].img, Posted(s).timestamp>> \in stamps.of]_vars

---------------------------------------------------------------------------
\* a step of a stop_capture call: its first, or the end of its join
StopStep ==
    \/ calls' = calls + 1 /\ call'.op = "stop_capture"
    \/ pc = "join" /\ pc' = "idle"

InFlightSenders == {s \in Senders : senders[s].pc \in {"next", "post"}}

\* C32: stop_capture does not cancel deliveries: no step of it changes a
\* delivery thread; a thread in flight goes on whatever the flag is, from a
\* 413 before the last rung to the next rung, and it ends only when it has
\* finished with every target of the list; and it does end
C32_StopLeavesDeliveries ==
    /\ [][StopStep => senders' = senders]_vars
    /\ [][\A s \in Senders :
             /\ (PostStep(s) /\ Answer(s) = "413" /\ senders[s].attempt + 1 < max_attempts)
                   => /\ senders'[s].pc = "post"
                      /\ senders'[s].attempt = senders[s].attempt + 1
             /\ (s \in InFlightSenders /\ senders'[s].pc = "dead")
                   => senders[s].log = config.webhook_urls]_vars
    /\ \A s \in Senders : (s \in InFlightSenders) ~> (senders[s].pc = "dead")

\* stop_capture has returned and the delivery thread, dispatched before the
\* call, is inside its last attempt for the last target
C32_Witness ==
    /\ call.op = "stop_capture" /\ call.val = "None"
    /\ ~capturing
    /\ senders[1].pc = "post"
    /\ senders[1].url = "B"
    /\ senders[1].attempt = max_attempts - 1

---------------------------------------------------------------------------
\* a failure of the session in progress: the handler of one of its ticks, or
\* a POST of a delivery thread dispatched for one of its frames
NewSessionFailure ==
    \/ \E t \in Threads : LoopGoes(t, "except", "fstore")
    \/ \E s \in Senders : PostStep(s) /\ senders[s].img # OldFrame

\* C38: after a start_capture called while idle has returned success, the
\* last error stays cleared until a failure of the new session: the step
\* that sets it is never a step of a delivery thread dispatched before the
\* session
C38_LastErrorOfNewSession ==
    [][(capture_thread # 0 /\ pc = "idle" /\ last_error = None /\ last_error' # None)
          => NewSessionFailure]_vars

---------------------------------------------------------------------------
Exceeds(f) == f.width > config.webhook_max_width \/ f.height > config.webhook_max_height

\* C33: for every frame size and every configured maximum the shrink
\* returns a frame within both maxima: the frame itself when it is within
\* them already, and otherwise the frame scaled by one factor for both
\* sides (each side is off by less than one pixel from the same proportion)
C33_ShrinkFitsWithinBounds ==
    frame.pc = "done" =>
       /\ ~frame.raised
       /\ 1 <= frame.out_width /\ frame.out_width <= config.webhook_max_width
       /\ 1 <= frame.out_height /\ frame.out_height <= config.webhook_max_height
       /\ ~Exceeds(frame) =>
             frame.out_width = frame.width /\ frame.out_height = frame.height
       /\ Exceeds(frame) =>
             /\ frame.out_width * frame.height - frame.out_height * frame.width < frame.width
             /\ frame.out_height * frame.width - frame.out_width * frame.height < frame.height

---------------------------------------------------------------------------
\* the dict d holds, for every field update_config handles, what cfg holds
SameFields(d, cfg) == \A k \in DOMAIN ConfigFields : d[ConfigFields[k]] = cfg[ConfigFields[k]]

GetConfigStep == ~snapshot.taken /\ snapshot'.taken

\* C31: a get_config made while an update_config with several fields is in
\* progress returns the configuration as it was before that call or as it
\* is after the whole call, never one with only some of the fields applied
C31_GetConfigSeesWholeUpdate ==
    [][(GetConfigStep /\ updater.i > 0)
          => \/ SameFields(snapshot'.d, updater.before)
             \/ SameFields(snapshot'.d, ApplyFields(updater.before, updater.new_config, 1).cfg)]_vars

====
